---- MODULE Spec2Model ----
(***************************************************************************)
(* g-copilot-proxy: the credential store, the auth gate, the OAuth login   *)
(* session manager and the two streaming routes, as state machines.        *)
(*                                                                         *)
(* JavaScript values are encoded as follows.                               *)
(*   - a string the code slices or matches is a sequence of one-character  *)
(*     strings; a string the code only copies or compares is a TLA+ string *)
(*   - `undefined`/`null` is None (the empty tuple) and a defined value v  *)
(*     is Some(v) (a one-element tuple)                                    *)
(*   - an object is a record; an optional key is a key that may be missing *)
(*     from the record's domain                                            *)
(***************************************************************************)
EXTENDS Integers, Sequences, FiniteSets, TLC

VARIABLES
    now,            \* Date.now(), in milliseconds
    AUTH_MODE,      \* config.AUTH_MODE, fixed for the life of the process
    authFile,       \* the file DATA_DIR/auth.json
    writing,        \* save() calls whose writeFile has truncated the file and not yet written
    unlinked,       \* those of them whose open file an unlink has removed from the directory
    reqs,           \* the requests to /v1/*, each with the middleware's locals
    decl,           \* which of the two OAuthManager declarations of oauth.ts is bound
    pendingLogins,  \* OAuthManager.pendingLogins: login id -> LoginResponse
    cleaned,        \* the last cleanup() call: its argument and the Date.now() it read
    flows,          \* the loginGitHubCopilot call of each login(): its progress
    loginReturn,    \* what each login() call has returned to its caller, None while it waits
    lastCompleted,  \* history: the credentials of the login whose session became
                    \* `complete` last, None again once a clear() or a save() has run since
    format,         \* the streaming request's route: "A" (/v1/chat/completions) or "B" (/v1/messages)
    streamPc,       \* where the streaming callback of that request stands
    piEvents,       \* the events the backend's stream() has yielded so far
    bridgeLog,      \* the SSEEvents PiAiBridge.streamCompletion has yielded so far
    written,        \* the frames stream.write() has sent to the client
    client,         \* whether the client of the streaming request is still connected
    api,            \* the POST requests to /v1/chat/completions and /v1/messages, each
                    \* with its handler's locals and its response
    ops,            \* the calls of clear(), load() and exists() by callers other than
                    \* the gate, each with its position and its result
    committed       \* history: the record the last completed save() wrote, None from
                    \* the start and after an unlink

storeVars == <<authFile, writing, unlinked>>
gateVars == <<AUTH_MODE, reqs>>
loginVars == <<decl, pendingLogins, cleaned, flows, loginReturn>>
streamVars == <<format, streamPc, piEvents, bridgeLog, written, client>>
apiVars == <<api>>
opVars == <<ops, committed>>
vars == <<now, storeVars, gateVars, loginVars, lastCompleted, streamVars, apiVars, opVars>>

(***************************************************************************)
(* Bounds of the model.                                                    *)
(***************************************************************************)
MaxTicks == 2
MaxRequests == 2
MaxWriters == 1
MaxLogins == 2
MaxCalls == 2
MaxOps == 2

TickMs == 60 * 1000
Requests == 1 .. MaxRequests
Calls == 1 .. MaxCalls
Ops == 1 .. MaxOps

(***************************************************************************)
(* JavaScript values.                                                      *)
(***************************************************************************)
None == <<>>
Some(v) == <<v>>
IsSome(o) == Len(o) = 1
Val(o) == o[1]

\* obj.key, `undefined` when the object has no such key
\* (for a key whose value, when present, is itself None or Some(v))
Prop(obj, key) == IF key \in DOMAIN obj THEN obj[key] ELSE None

\* String.prototype.startsWith
StartsWith(s, prefix) ==
    /\ Len(s) >= Len(prefix)
    /\ SubSeq(s, 1, Len(prefix)) = prefix

\* String.prototype.slice(k), k >= 0
Slice(s, k) == IF k >= Len(s) THEN <<>> ELSE SubSeq(s, k + 1, Len(s))

\* a caller of the store before its call
IdleOp ==
    [kind |-> "none", pc |-> "idle", outcome |-> "none", value |-> None, found |-> FALSE,
     stored |-> None, quiet |-> FALSE]

\* a request slot of the two POST routes before its request arrives
IdleCall ==
    [pc |-> "idle", format |-> "A", body |-> None, modelId |-> None, context |-> None,
     backendCalls |-> 0, failure |-> None, status |-> 0, response |-> None,
     piaiMessage |-> None, event |-> None, chunks |-> <<>>]

(***************************************************************************)
(* Credential storage (storage.ts).                                        *)
(***************************************************************************)
AUTH_VERSION == 1

NoFile == [state |-> "absent"]
FileWith(text) == [state |-> "present", text |-> text]
EmptyText == None

\* a serializer that writes no enterpriseUrl at all
JSONStringify_DropsEnterpriseUrl(data) ==
    LET c == data.credentials
    IN  Some([version |-> data.version,
              credentials |-> [k \in DOMAIN c \ {"enterpriseUrl"} |-> c[k]]])

\* JSON.stringify(data): a key whose value is undefined is left out
JSONStringify(data) ==
    LET c == data.credentials
        keys == {k \in DOMAIN c : k # "enterpriseUrl" \/ c[k] # None}
    IN  Some([version |-> data.version, credentials |-> [k \in keys |-> c[k]]])

\* JSON.parse(text): [ok |-> FALSE] stands for the SyntaxError thrown on a text
\* that is not one complete JSON value
JSONParse(text) ==
    IF text = EmptyText THEN [ok |-> FALSE] ELSE [ok |-> TRUE, value |-> Val(text)]

\* existsSync(this.authFilePath)
existsSync(file) == file.state = "present"

\* load() from the readFile on: the file as readFile finds it
loadRead(file) ==
    IF ~existsSync(file)
    THEN None                                   \* readFile rejects (ENOENT): caught
    ELSE LET parsed == JSONParse(file.text)
         IN  IF ~parsed.ok THEN None            \* JSON.parse throws: caught
             ELSE IF parsed.value.version # AUTH_VERSION THEN None
             ELSE Some(parsed.value.credentials)

\* isExpired() on the outcome of its load(), at time t
isExpired(credentials, t) ==
    IF ~IsSome(credentials) THEN TRUE
    ELSE t > Val(credentials).expiresAt - 5 * 60 * 1000

(***************************************************************************)
(* The credentials and headers the environment supplies.                   *)
(***************************************************************************)
TokA == <<"t", "A">>
TokB == <<"t", "B">>

Credential(tok, exp, ent) ==
    [accessToken |-> tok, refreshToken |-> <<"r">> \o tok, expiresAt |-> exp,
     enterpriseUrl |-> ent, createdAt |-> 0]

\* the records handed to save(): TokA on github.com, TokB on an enterprise host
\* and expiring a millisecond earlier
NewCredentials ==
    {Credential(TokA, 6 * 60 * 1000, None),
     Credential(TokB, 6 * 60 * 1000 - 1, Some("ghe.example"))}

\* a record an earlier run of the process has left in the file
StoredBefore == Credential(<<"t", "0">>, 6 * 60 * 1000, None)

BearerT1 == <<"B", "e", "a", "r", "e", "r", " ", "t", "1">>
BearerOnly == <<"B", "e", "a", "r", "e", "r", " ">>
BearerNoSpace == <<"B", "e", "a", "r", "e", "r">>
LowerBearerT1 == <<"b", "e", "a", "r", "e", "r", " ", "t", "1">>
BasicT1 == <<"B", "a", "s", "i", "c", " ", "t", "1">>

\* c.req.header("Authorization"): undefined when the request has none
Headers == {None, Some(BearerT1), Some(BearerOnly), Some(BearerNoSpace),
            Some(LowerBearerT1), Some(BasicT1)}

\* the managed branch never reads the header: two of them are enough there
RequestHeaders == IF AUTH_MODE = "passthrough" THEN Headers ELSE {None, Some(BearerT1)}

(***************************************************************************)
(* Auth middleware (middleware.ts).                                        *)
(***************************************************************************)
buffer == 5 * 60 * 1000

BearerPrefix == <<"B", "e", "a", "r", "e", "r", " ">>

\* the error bodies, as the words of their `error` string
MsgMissingHeader == <<"Missing", "or", "invalid", "Authorization", "header">>
MsgNoCredentials ==
    <<"No", "OAuth", "credentials", "found.", "Please", "authenticate", "at", "/auth/login">>
MsgTokenExpired == <<"Token", "expired.", "Please", "re-authenticate", "at", "/auth/login">>

Reject(msg) == [admit |-> FALSE, status |-> 401, body |-> msg, auth |-> None]
\* an admission that runs next() without c.set("auth", ...)
Admit_NoContext(auth) == [admit |-> TRUE, status |-> 0, body |-> <<>>, auth |-> None]
Admit(auth) == [admit |-> TRUE, status |-> 0, body |-> <<>>, auth |-> Some(auth)]

\* a gate that takes any Authorization header for a bearer token
IsBearer_AnyScheme(authHeader) == IsSome(authHeader) /\ Len(Val(authHeader)) >= 7

\* authHeader?.startsWith("Bearer ")
IsBearer(authHeader) == IsSome(authHeader) /\ StartsWith(Val(authHeader), BearerPrefix)

\* the passthrough branch
PassthroughGate(authHeader) ==
    IF IsBearer(authHeader)
    THEN Admit([accessToken |-> Slice(Val(authHeader), 7), source |-> "bearer"])
    ELSE Reject(MsgMissingHeader)

\* an expiry check that leaves the buffer out
TokenExpired_NoBuffer(t, credentials) == t > credentials.expiresAt

\* now > credentials.expiresAt - buffer
TokenExpired(t, credentials) == t > credentials.expiresAt - buffer

\* a managed branch whose missing-credentials answer does not stop the request
ManagedGate_NoReturn(credentials, t) ==
    IF ~IsSome(credentials)
    THEN [admit |-> TRUE, status |-> 401, body |-> MsgNoCredentials, auth |-> None]
    ELSE IF TokenExpired(t, Val(credentials)) THEN Reject(MsgTokenExpired)
    ELSE Admit([accessToken |-> Val(credentials).accessToken,
                enterpriseUrl |-> Prop(Val(credentials), "enterpriseUrl"),
                source |-> "managed"])

\* the managed branch, from the outcome of storage.load() on
ManagedGate(credentials, t) ==
    IF ~IsSome(credentials) THEN Reject(MsgNoCredentials)
    ELSE IF TokenExpired(t, Val(credentials)) THEN Reject(MsgTokenExpired)
    ELSE Admit([accessToken |-> Val(credentials).accessToken,
                enterpriseUrl |-> Prop(Val(credentials), "enterpriseUrl"),
                source |-> "managed"])

IdleRequest ==
    [pc |-> "idle", header |-> None, loads |-> 0, sawFile |-> "absent",
     credentials |-> None, checkedAt |-> None, auth |-> None,
     status |-> 0, body |-> <<>>, nextRuns |-> 0, handled |-> FALSE, apiKey |-> None]

\* what the middleware leaves in the request
Decided(q, out) ==
    [q EXCEPT !.pc = IF out.admit THEN "next" ELSE "done",
              !.auth = out.auth, !.status = out.status, !.body = out.body,
              !.nextRuns = IF out.admit THEN 1 ELSE 0]

\* a request to a /v1 route arrives
NewRequest(r, h) ==
    /\ reqs[r].pc \in {"idle", "done"}
    /\ reqs' = [reqs EXCEPT ![r] = [IdleRequest EXCEPT !.pc = "arrived", !.header = h]]
    /\ UNCHANGED <<now, AUTH_MODE, storeVars, loginVars, lastCompleted, streamVars, apiVars, opVars>>

\* the middleware in passthrough mode
GatePassthrough(r) ==
    /\ reqs[r].pc = "arrived"
    /\ AUTH_MODE = "passthrough"
    /\ reqs' = [reqs EXCEPT ![r] = Decided(@, PassthroughGate(@.header))]
    /\ UNCHANGED <<now, AUTH_MODE, storeVars, loginVars, lastCompleted, streamVars, apiVars, opVars>>

\* the middleware in managed mode, to the existsSync of storage.load()
GateLoad(r) ==
    /\ reqs[r].pc = "arrived"
    /\ AUTH_MODE = "managed"
    /\ LET q == [reqs[r] EXCEPT !.loads = @ + 1, !.sawFile = authFile.state]
       IN  reqs' = [reqs EXCEPT ![r] =
                IF existsSync(authFile)
                THEN [q EXCEPT !.pc = "reading"]
                ELSE Decided(q, ManagedGate(None, now))]
    /\ UNCHANGED <<now, AUTH_MODE, storeVars, loginVars, lastCompleted, streamVars, apiVars, opVars>>

\* a gate that deletes the record it finds expired
GateRead_ClearsExpired(r) ==
    /\ reqs[r].pc = "reading"
    /\ LET credentials == loadRead(authFile)
           q == [reqs[r] EXCEPT !.credentials = credentials,
                                !.checkedAt = IF IsSome(credentials) THEN Some(now) ELSE None]
           out == ManagedGate(credentials, now)
       IN  /\ reqs' = [reqs EXCEPT ![r] = Decided(q, out)]
           /\ authFile' = IF out.body = MsgTokenExpired THEN NoFile ELSE authFile
    /\ UNCHANGED <<now, AUTH_MODE, writing, unlinked, loginVars, lastCompleted, streamVars,
                   apiVars, opVars>>

\* the middleware in managed mode, from the readFile of storage.load() on
GateRead(r) ==
    /\ reqs[r].pc = "reading"
    /\ LET credentials == loadRead(authFile)
           q == [reqs[r] EXCEPT !.credentials = credentials,
                                !.checkedAt = IF IsSome(credentials) THEN Some(now) ELSE None]
       IN  reqs' = [reqs EXCEPT ![r] = Decided(q, ManagedGate(credentials, now))]
    /\ UNCHANGED <<now, AUTH_MODE, storeVars, loginVars, lastCompleted, streamVars, apiVars, opVars>>

\* next(): the route's handler, which calls the backend with auth.accessToken;
\* getAuthContext throws without an auth context and the server answers 500
Handler(r) ==
    /\ reqs[r].pc = "next"
    /\ reqs' = [reqs EXCEPT ![r] =
            IF IsSome(reqs[r].auth)
            THEN [@ EXCEPT !.pc = "done", !.status = 200, !.handled = TRUE,
                           !.apiKey = Some(Val(reqs[r].auth).accessToken)]
            ELSE [@ EXCEPT !.pc = "done", !.status = 500, !.handled = TRUE]]
    /\ UNCHANGED <<now, AUTH_MODE, storeVars, loginVars, lastCompleted, streamVars, apiVars, opVars>>

(***************************************************************************)
(* The store's operations and the clock.                                   *)
(***************************************************************************)
\* save(credentials), to writeFile's open of the file, which truncates it
SaveOpen(c) ==
    /\ Cardinality(writing) < MaxWriters
    /\ c \notin writing
    /\ writing' = writing \cup {c}
    /\ authFile' = FileWith(EmptyText)
    /\ lastCompleted' = None
    /\ UNCHANGED <<now, unlinked, gateVars, loginVars, streamVars, apiVars, opVars>>

\* save(credentials), writeFile's write of the whole text to the file it has
\* opened: a file unlinked since the open takes the text with it
SaveWrite(c) ==
    /\ c \in writing
    /\ writing' = writing \ {c}
    /\ unlinked' = unlinked \ {c}
    /\ IF c \in unlinked
       THEN UNCHANGED <<authFile, committed>>
       ELSE /\ authFile' = FileWith(JSONStringify([version |-> AUTH_VERSION, credentials |-> c]))
            /\ committed' = Some(c)
    /\ UNCHANGED <<now, gateVars, loginVars, lastCompleted, streamVars, apiVars, ops>>

\* clear() of a caller whose exists() and unlink no other call comes between:
\* unlink when the file exists
Clear ==
    /\ authFile' = NoFile
    /\ lastCompleted' = None
    /\ committed' = None
    /\ unlinked' = writing
    /\ UNCHANGED <<now, writing, gateVars, loginVars, streamVars, apiVars, ops>>

Tick ==
    /\ now < MaxTicks * TickMs
    /\ now' = now + TickMs
    /\ UNCHANGED <<storeVars, gateVars, loginVars, lastCompleted, streamVars, apiVars, opVars>>

(***************************************************************************)
(* The store's operations as its callers run them, one step per file       *)
(* system access (storage.ts).                                             *)
(***************************************************************************)
Returned(op, outcome) == [op EXCEPT !.pc = "returned", !.outcome = outcome]

\* what a call notes when it looks at the file: the record a completed save
\* has left there, and whether no save is in progress
Noting(op) == [op EXCEPT !.stored = committed, !.quiet = (writing = {})]

\* clear() up to its unlink: `if (await this.exists())`
ClearExists(o) ==
    /\ ops[o].pc = "idle"
    /\ ops' = [ops EXCEPT ![o] =
            LET op == [Noting(@) EXCEPT !.kind = "clear", !.found = existsSync(authFile)]
            IN  IF existsSync(authFile) THEN [op EXCEPT !.pc = "unlinking"]
                ELSE Returned(op, "ok")]
    /\ UNCHANGED <<now, storeVars, gateVars, loginVars, lastCompleted, streamVars, apiVars,
                   committed>>

\* clear(), its `await unlink(path)`: unlink rejects with ENOENT when the file
\* is gone, and clear() rejects with it
ClearUnlink(o) ==
    /\ ops[o].pc = "unlinking"
    /\ IF existsSync(authFile)
       THEN /\ authFile' = NoFile
            /\ unlinked' = writing
            /\ committed' = None
            /\ lastCompleted' = None
            /\ ops' = [ops EXCEPT ![o] = Returned(@, "ok")]
       ELSE /\ ops' = [ops EXCEPT ![o] = Returned(@, "threw")]
            /\ UNCHANGED <<authFile, unlinked, committed, lastCompleted>>
    /\ UNCHANGED <<now, writing, gateVars, loginVars, streamVars, apiVars>>

\* load() up to its readFile: `if (!existsSync(path)) return null`
LoadExists(o) ==
    /\ ops[o].pc = "idle"
    /\ ops' = [ops EXCEPT ![o] =
            LET op == [Noting(@) EXCEPT !.kind = "load", !.found = existsSync(authFile)]
            IN  IF existsSync(authFile) THEN [op EXCEPT !.pc = "reading"]
                ELSE Returned(op, "ok")]
    /\ UNCHANGED <<now, storeVars, gateVars, loginVars, lastCompleted, streamVars, apiVars,
                   committed>>

\* load() from its readFile on
LoadRead(o) ==
    /\ ops[o].pc = "reading"
    /\ ops' = [ops EXCEPT ![o] = Returned([Noting(@) EXCEPT !.value = loadRead(authFile)], "ok")]
    /\ UNCHANGED <<now, storeVars, gateVars, loginVars, lastCompleted, streamVars, apiVars,
                   committed>>

\* exists()
Exists(o) ==
    /\ ops[o].pc = "idle"
    /\ ops' = [ops EXCEPT ![o] =
            Returned([Noting(@) EXCEPT !.kind = "exists", !.found = existsSync(authFile)], "ok")]
    /\ UNCHANGED <<now, storeVars, gateVars, loginVars, lastCompleted, streamVars, apiVars,
                   committed>>

\* POST /auth/logout: the status of the response once its clear() has settled
LogoutStatus(op) == IF op.outcome = "threw" THEN 500 ELSE 200

(***************************************************************************)
(* Strings: the two regular expressions of oauth.ts.                       *)
(***************************************************************************)
Min(S) == CHOOSE x \in S : \A y \in S : x <= y

DigitSeq == <<"0", "1", "2", "3", "4", "5", "6", "7", "8", "9">>
Digit == {DigitSeq[i] : i \in 1 .. 10}
Upper == {"A", "B", "C", "D", "E", "F", "G", "H", "I", "J", "K", "L", "M",
          "N", "O", "P", "Q", "R", "S", "T", "U", "V", "W", "X", "Y", "Z"}
Lower == {"a", "b", "c", "d", "e", "f", "g", "h", "i", "j", "k", "l", "m",
          "n", "o", "p", "q", "r", "s", "t", "u", "v", "w", "x", "y", "z"}
WhiteSpace == {" ", "\t", "\n"}

\* `${n}` for an integer n >= 0
RECURSIVE Digits(_)
Digits(n) == IF n < 10 THEN <<DigitSeq[n + 1]>>
             ELSE Digits(n \div 10) \o <<DigitSeq[(n % 10) + 1]>>

\* parseInt(ds, 10) for a string of digits
RECURSIVE parseInt(_)
parseInt(ds) ==
    IF Len(ds) = 0 THEN 0
    ELSE parseInt(SubSeq(ds, 1, Len(ds) - 1)) * 10
            + ((CHOOSE i \in 1 .. 10 : DigitSeq[i] = ds[Len(ds)]) - 1)

\* String.prototype.includes
Includes(s, sub) ==
    \E i \in 1 .. (Len(s) - Len(sub) + 1) : SubSeq(s, i, i + Len(sub) - 1) = sub

\* the first index from i on whose character is not in set, Len(s) + 1 when none
RECURSIVE SkipWhile(_, _, _)
SkipWhile(s, i, set) ==
    IF i > Len(s) \/ s[i] \notin set THEN i ELSE SkipWhile(s, i + 1, set)

\* /code:\s*([A-Z0-9-]+)/i : the group of the leftmost match, None without a match
CodeClass == Upper \cup Lower \cup Digit \cup {"-"}
CodeAt(s, i) ==
    /\ i + 4 <= Len(s)
    /\ s[i] \in {"c", "C"} /\ s[i + 1] \in {"o", "O"} /\ s[i + 2] \in {"d", "D"}
    /\ s[i + 3] \in {"e", "E"} /\ s[i + 4] = ":"
    /\ LET j == SkipWhile(s, i + 5, WhiteSpace)
       IN  j <= Len(s) /\ s[j] \in CodeClass
MatchCode(s) ==
    LET at == {i \in 1 .. Len(s) : CodeAt(s, i)}
    IN  IF at = {} THEN None
        ELSE LET j == SkipWhile(s, Min(at) + 5, WhiteSpace)
             IN  Some(SubSeq(s, j, SkipWhile(s, j, CodeClass) - 1))

\* /login-(\d+)-/ : the group of the leftmost match, None without a match
LoginWord == <<"l", "o", "g", "i", "n", "-">>
StampAt(s, i) ==
    /\ i + 5 <= Len(s)
    /\ SubSeq(s, i, i + 5) = LoginWord
    /\ LET k == SkipWhile(s, i + 6, Digit)
       IN  k > i + 6 /\ k <= Len(s) /\ s[k] = "-"
MatchStamp(s) ==
    LET at == {i \in 1 .. Len(s) : StampAt(s, i)}
    IN  IF at = {} THEN None
        ELSE Some(SubSeq(s, Min(at) + 6, SkipWhile(s, Min(at) + 6, Digit) - 1))

(***************************************************************************)
(* OAuth login sessions (oauth.ts).  The file declares OAuthManager twice: *)
(* login() of the first declaration returns at once, login() of the second *)
(* waits for the verification URL.  performLogin, getLoginStatus and       *)
(* cleanup are the same in both.                                           *)
(***************************************************************************)
\* Math.random().toString(36).slice(2, 9): the draws, in the order they come
Randoms == <<<<"k", "3">>, <<"z", "q">>, <<"7", "m">>>>

\* `login-${Date.now()}-${random}`
LoginId(t, rnd) == LoginWord \o Digits(t) \o <<"-">> \o rnd

\* the first declaration's initial record
StartedResponse ==
    [status |-> "started",
     message |-> "OAuth flow initiated. Check server logs for device code.",
     verificationUri |-> None, userCode |-> None, deviceCode |-> None]

\* the second declaration's initial record
PendingResponse ==
    [status |-> "pending", message |-> "OAuth flow initiated",
     verificationUri |-> None, userCode |-> None, deviceCode |-> None]

InitialResponse == IF decl = 1 THEN StartedResponse ELSE PendingResponse

\* the device login's inputs: the verification URL, the instructions, the
\* credentials it resolves with and the values it rejects with
VerificationUrl == "https://github.com/login/device"
EnterCode == <<"E", "n", "t", "e", "r", " ", "c", "o", "d", "e", ":", " ", "A", "B", "-", "1">>
CapitalCode == <<"C", "o", "d", "e", ":", " ", "A", "B", "-", "1">>
CodeNoToken == <<"c", "o", "d", "e", ":", " ", "?">>
OpenBrowser == <<"O", "p", "e", "n", " ", "U", "R", "L">>
Instructions == {None, Some(EnterCode), Some(CapitalCode), Some(CodeNoToken), Some(OpenBrowser)}
\* an Error with its message, and a thrown value that is no Error
Rejections ==
    {[isError |-> TRUE, message |-> "Login cancelled"],
     [isError |-> FALSE, message |-> "timeout"]}

\* login(): a new session and its device login in the background
login(rnd) ==
    LET loginId == LoginId(now, rnd)
    IN  /\ Cardinality(DOMAIN flows) < MaxLogins
        /\ loginId \notin DOMAIN flows      \* the random part tells two ids of one millisecond apart
        /\ \A i \in 1 .. Len(Randoms) :
                Randoms[i] = rnd => \A j \in 1 .. i - 1 : LoginId(now, Randoms[j]) \in DOMAIN flows
        /\ pendingLogins' = loginId :> InitialResponse @@ pendingLogins
        /\ flows' = loginId :> [phase |-> "started", error |-> None, createdAt |-> now,
                                match |-> None, orphan |-> FALSE] @@ flows
        /\ loginReturn' = loginId :> (IF decl = 1 THEN Some(InitialResponse) ELSE None)
                            @@ loginReturn
        /\ UNCHANGED <<now, storeVars, gateVars, decl, cleaned, lastCompleted, streamVars, apiVars, opVars>>

\* instructions?.includes("code:") and the match: the code, None without one
MatchInstructions(instructions) ==
    IF IsSome(instructions) /\ Includes(Val(instructions), <<"c", "o", "d", "e", ":">>)
    THEN MatchCode(Val(instructions))
    ELSE None

\* the same, tabulated over the instructions the device login gives
CodeOf == [i \in Instructions |-> MatchInstructions(i)]
ExtractCode(instructions) == CodeOf[instructions]

\* performLogin's onAuth on the session record
onAuth(current, url, instructions) ==
    LET code == ExtractCode(instructions)
    IN  [current EXCEPT !.verificationUri = Some(url),
                        !.status = "pending",
                        !.userCode = IF IsSome(code) THEN code ELSE @,
                        !.deviceCode = IF IsSome(code) THEN code ELSE @]

\* the code the second declaration's callback hands on: "" without a match
WrapperCode(instructions) ==
    LET code == ExtractCode(instructions)
    IN  IF IsSome(code) THEN Val(code) ELSE <<>>

\* the second declaration's onAuth callback on the session record
onAuthWrapper(current, url, instructions) ==
    [current EXCEPT !.verificationUri = Some(url),
                    !.userCode = Some(WrapperCode(instructions)),
                    !.deviceCode = Some(WrapperCode(instructions)),
                    !.status = "pending"]

\* what the second declaration's login() returns once the callback has run
AuthDataResponse(url, instructions) ==
    [status |-> "pending", message |-> "Please authenticate with the provided code",
     verificationUri |-> Some(url), userCode |-> Some(WrapperCode(instructions)),
     deviceCode |-> Some(WrapperCode(instructions))]

\* `if (current)` fails: the callback finds its session gone from the map,
\* now or at an earlier callback
Orphaned(id) == flows[id].orphan \/ id \notin DOMAIN pendingLogins

\* the device login calls onAuth(url, instructions)
BackendOnAuth(id, url, instructions) ==
    /\ flows[id].phase = "started"
    /\ flows' = [flows EXCEPT ![id] = [@ EXCEPT !.phase = "authed",
                                                !.match = Some(ExtractCode(instructions)),
                                                !.orphan = Orphaned(id)]]
    /\ pendingLogins' =
        IF id \in DOMAIN pendingLogins
        THEN [pendingLogins EXCEPT ![id] =
                IF decl = 1 THEN onAuth(@, url, instructions)
                ELSE onAuthWrapper(onAuth(@, url, instructions), url, instructions)]
        ELSE pendingLogins
    /\ loginReturn' =
        IF decl = 1 THEN loginReturn
        ELSE [loginReturn EXCEPT ![id] = Some(AuthDataResponse(url, instructions))]
    /\ UNCHANGED <<now, storeVars, gateVars, decl, cleaned, lastCompleted, streamVars, apiVars, opVars>>

\* the device login calls onProgress(message): logged, nothing else
BackendOnProgress(id) ==
    /\ flows[id].phase \in {"started", "authed"}
    /\ UNCHANGED vars

\* a completion that writes the initial status back
Completed_Restarted(current) ==
    [current EXCEPT !.status = "started", !.message = "Login successful!"]

\* the record after the device login has resolved
Completed(current) ==
    [current EXCEPT !.status = "complete", !.message = "Login successful!"]

\* a completion that sets the session anew when the map has none
BackendResolve_Recreates(id, credentials) ==
    /\ flows[id].phase = "authed"
    /\ flows' = [flows EXCEPT ![id] = [@ EXCEPT !.phase = "resolved", !.orphan = Orphaned(id)]]
    /\ pendingLogins' =
        IF id \in DOMAIN pendingLogins
        THEN [pendingLogins EXCEPT ![id] = Completed(@)]
        ELSE id :> Completed(InitialResponse) @@ pendingLogins
    /\ lastCompleted' = IF id \in DOMAIN pendingLogins THEN Some(credentials) ELSE lastCompleted
    /\ UNCHANGED <<now, storeVars, gateVars, decl, cleaned, loginReturn, streamVars, apiVars, opVars>>

\* the device login resolves with credentials: performLogin's lines after the await
BackendResolve(id, credentials) ==
    /\ flows[id].phase = "authed"
    /\ flows' = [flows EXCEPT ![id] = [@ EXCEPT !.phase = "resolved", !.orphan = Orphaned(id)]]
    /\ pendingLogins' =
        IF id \in DOMAIN pendingLogins
        THEN [pendingLogins EXCEPT ![id] = Completed(@)]
        ELSE pendingLogins
    /\ lastCompleted' = IF id \in DOMAIN pendingLogins THEN Some(credentials) ELSE lastCompleted
    /\ UNCHANGED <<now, storeVars, gateVars, decl, cleaned, loginReturn, streamVars, apiVars, opVars>>

\* a catch that never reads the error
ErrorMessage_Generic(error) == "Unknown error"

\* error instanceof Error ? error.message : "Unknown error"
ErrorMessage(error) == IF error.isError THEN error.message ELSE "Unknown error"

\* the record after the device login has rejected
Failed(current, error) ==
    [current EXCEPT !.status = "error", !.message = ErrorMessage(error)]

\* a catch that marks every session failed
BackendReject_EverySession(id, error) ==
    /\ flows[id].phase \in {"started", "authed"}
    /\ flows' = [flows EXCEPT ![id] = [@ EXCEPT !.phase = "rejected", !.error = Some(error),
                                                !.orphan = Orphaned(id)]]
    /\ pendingLogins' = [other \in DOMAIN pendingLogins |-> Failed(pendingLogins[other], error)]
    /\ UNCHANGED <<now, storeVars, gateVars, decl, cleaned, loginReturn, lastCompleted, streamVars, apiVars, opVars>>

\* the device login rejects: performLogin's catch
BackendReject(id, error) ==
    /\ flows[id].phase \in {"started", "authed"}
    /\ flows' = [flows EXCEPT ![id] = [@ EXCEPT !.phase = "rejected", !.error = Some(error),
                                                !.orphan = Orphaned(id)]]
    /\ pendingLogins' =
        IF id \in DOMAIN pendingLogins
        THEN [pendingLogins EXCEPT ![id] = Failed(@, error)]
        ELSE pendingLogins
    /\ UNCHANGED <<now, storeVars, gateVars, decl, cleaned, loginReturn, lastCompleted, streamVars, apiVars, opVars>>

\* getLoginStatus(loginId)
getLoginStatus(loginId) ==
    IF loginId \in DOMAIN pendingLogins THEN Some(pendingLogins[loginId]) ELSE None

\* the ids login() makes within the bounds, and for each the timestamp cleanup
\* reads back from it: id.match(/login-(\d+)-/) and parseInt(match[1], 10)
SessionIds ==
    {LoginId(t * TickMs, Randoms[i]) : t \in 0 .. MaxTicks, i \in 1 .. Len(Randoms)}
IdTimestamp ==
    [id \in SessionIds |->
        LET match == MatchStamp(id)
        IN  IF IsSome(match) THEN Some(parseInt(Val(match))) ELSE None]

\* a cleanup that also deletes the session whose timestamp is the cutoff
TooOld_OrAtCutoff(id, cutoff) == IsSome(IdTimestamp[id]) /\ Val(IdTimestamp[id]) <= cutoff

\* whether cleanup deletes the session of this id, given the cutoff
TooOld(id, cutoff) == IsSome(IdTimestamp[id]) /\ Val(IdTimestamp[id]) < cutoff

\* cleanup(loginsOlderThanMs)
cleanup(loginsOlderThanMs) ==
    LET cutoff == now - loginsOlderThanMs
        kept == {id \in DOMAIN pendingLogins : ~TooOld(id, cutoff)}
    IN  /\ pendingLogins' = [id \in kept |-> pendingLogins[id]]
        /\ cleaned' = Some([loginsOlderThanMs |-> loginsOlderThanMs, at |-> now])
        /\ UNCHANGED <<now, storeVars, gateVars, decl, flows, loginReturn, lastCompleted, streamVars, apiVars, opVars>>

MaxAges == {0, TickMs, 5 * 60 * 1000}

\* load(), when nothing runs between its existsSync and its readFile
load(file) == IF ~existsSync(file) THEN None ELSE loadRead(file)

\* GET /auth/status
AuthStatus ==
    LET credentials == load(authFile)
    IN  [mode |-> AUTH_MODE,
         authenticated |-> IsSome(credentials),
         enterpriseUrl |-> IF IsSome(credentials)
                           THEN Prop(Val(credentials), "enterpriseUrl") ELSE None]

(***************************************************************************)
(* The login sessions' specification.                                      *)
(***************************************************************************)
LoginInit ==
    /\ now = 0
    /\ AUTH_MODE = "managed"
    /\ authFile \in {NoFile, FileWith(JSONStringify([version |-> AUTH_VERSION,
                                                      credentials |-> StoredBefore]))}
    /\ writing = {}
    /\ unlinked = {}
    /\ reqs = [r \in Requests |-> IdleRequest]
    /\ decl \in {1, 2}
    /\ cleaned = None
    /\ pendingLogins = <<>>
    /\ flows = <<>>
    /\ loginReturn = <<>>
    /\ lastCompleted = None
    /\ format = "A"
    /\ streamPc = "idle"
    /\ piEvents = <<>>
    /\ bridgeLog = <<>>
    /\ written = <<>>
    /\ client = "connected"
    /\ api = [k \in Calls |-> IdleCall]
    /\ ops = [o \in Ops |-> IdleOp]
    /\ committed = None

LoginNext ==
    \/ \E i \in 1 .. Len(Randoms) : login(Randoms[i])
    \/ \E id \in DOMAIN flows, i \in Instructions : BackendOnAuth(id, VerificationUrl, i)
    \/ \E id \in DOMAIN flows : BackendOnProgress(id)
    \/ \E id \in DOMAIN flows, c \in NewCredentials : BackendResolve(id, c)
    \/ \E id \in DOMAIN flows, e \in Rejections : BackendReject(id, e)
    \/ \E age \in MaxAges : cleanup(age)
    \/ Clear
    \/ Tick

LoginSpec == LoginInit /\ [][LoginNext]_vars

\* the steps of the device logins in progress
BackendSteps ==
    \E id \in DOMAIN flows :
        \/ \E i \in Instructions : BackendOnAuth(id, VerificationUrl, i)
        \/ \E c \in NewCredentials : BackendResolve(id, c)
        \/ \E e \in Rejections : BackendReject(id, e)

\* the login sessions with device logins that go on until they settle
LoginLiveSpec == LoginSpec /\ WF_vars(BackendSteps)

(***************************************************************************)
(* The auth gate's specification.                                          *)
(***************************************************************************)
Init ==
    /\ now = 0
    /\ AUTH_MODE \in {"passthrough", "managed"}
    /\ authFile = NoFile
    /\ writing = {}
    /\ unlinked = {}
    /\ reqs = [r \in Requests |-> IdleRequest]
    /\ decl = 1
    /\ cleaned = None
    /\ pendingLogins = <<>>
    /\ flows = <<>>
    /\ loginReturn = <<>>
    /\ lastCompleted = None
    /\ format = "A"
    /\ streamPc = "idle"
    /\ piEvents = <<>>
    /\ bridgeLog = <<>>
    /\ written = <<>>
    /\ client = "connected"
    /\ api = [k \in Calls |-> IdleCall]
    /\ ops = [o \in Ops |-> IdleOp]
    /\ committed = None

Next ==
    \/ \E r \in Requests, h \in RequestHeaders : NewRequest(r, h)
    \/ \E r \in Requests : GatePassthrough(r)
    \/ \E r \in Requests : GateLoad(r)
    \/ \E r \in Requests : GateRead(r)
    \/ \E r \in Requests : Handler(r)
    \/ \E c \in NewCredentials : SaveOpen(c)
    \/ \E c \in writing : SaveWrite(c)
    \/ Clear
    \/ Tick

Spec == Init /\ [][Next]_vars

(***************************************************************************)
(* JSON.parse of a string held as characters.  The grammar is the part of  *)
(* JSON the requests below use: objects, strings without escapes and       *)
(* non-negative integers, with optional white space.  A parsed value is    *)
(* [t |-> "number", v |-> n], [t |-> "string", v |-> chars] or             *)
(* [t |-> "object", v |-> members], members a sequence of                  *)
(* [key |-> chars, value |-> value] with distinct keys.                    *)
(***************************************************************************)
Quote == "\""
ParseFailed == [ok |-> FALSE]
Parsed(value, next) == [ok |-> TRUE, value |-> value, next |-> next]

JsonNumber(n) == [t |-> "number", v |-> n]
JsonString(chars) == [t |-> "string", v |-> chars]
JsonObject(members) == [t |-> "object", v |-> members]

StringChars == Upper \cup Lower \cup Digit \cup {" ", "-", "_", ":", ",", "{", "}"}

\* a string literal starting at s[i]
ParseString(s, i) ==
    IF i > Len(s) \/ s[i] # Quote THEN ParseFailed
    ELSE LET close == SkipWhile(s, i + 1, StringChars)
         IN  IF close > Len(s) \/ s[close] # Quote THEN ParseFailed
             ELSE Parsed(JsonString(SubSeq(s, i + 1, close - 1)), close + 1)

\* a number starting at s[i]: 0, or digits not starting with 0
ParseNumber(s, i) ==
    LET end == SkipWhile(s, i, Digit)
    IN  IF end = i \/ (s[i] = "0" /\ end > i + 1) THEN ParseFailed
        ELSE Parsed(JsonNumber(parseInt(SubSeq(s, i, end - 1))), end)

\* an array index as a property key: "0", or digits that do not start with 0
IsIndexKey(key) ==
    /\ key # <<>>
    /\ \A i \in 1 .. Len(key) : key[i] \in Digit
    /\ key[1] = "0" => Len(key) = 1

\* an object that lists a repeated key where it was given last, and array
\* indices where they were given
PutMember_RepeatedLast(members, key, value) ==
    LET IsOther(m) == m.key # key
    IN  Append(SelectSeq(members, IsOther), [key |-> key, value |-> value])

\* the members with `key` set to `value`, in the order the object lists its
\* own keys: a key it has keeps its place, a new array index goes among the
\* array indices in ascending order, any other new key goes last
PutMember(members, key, value) ==
    LET member == [key |-> key, value |-> value]
        at == {i \in 1 .. Len(members) : members[i].key = key}
        before == {i \in 1 .. Len(members) :
                      IsIndexKey(members[i].key) /\ parseInt(members[i].key) < parseInt(key)}
    IN  IF at # {} THEN [members EXCEPT ![CHOOSE i \in at : TRUE] = member]
        ELSE IF IsIndexKey(key)
        THEN SubSeq(members, 1, Cardinality(before)) \o <<member>>
                \o SubSeq(members, Cardinality(before) + 1, Len(members))
        ELSE Append(members, member)

RECURSIVE ParseValue(_, _)
RECURSIVE ParseMembers(_, _, _)

\* the members of an object from s[i] on, a key expected at s[i]
ParseMembers(s, i, members) ==
    LET key == ParseString(s, SkipWhile(s, i, WhiteSpace))
    IN  IF ~key.ok THEN ParseFailed
        ELSE LET colon == SkipWhile(s, key.next, WhiteSpace)
             IN  IF colon > Len(s) \/ s[colon] # ":" THEN ParseFailed
                 ELSE LET value == ParseValue(s, colon + 1)
                      IN  IF ~value.ok THEN ParseFailed
                          ELSE LET after == SkipWhile(s, value.next, WhiteSpace)
                                   all == PutMember(members, key.value.v, value.value)
                               IN  IF after > Len(s) THEN ParseFailed
                                   ELSE IF s[after] = "}"
                                   THEN Parsed(JsonObject(all), after + 1)
                                   ELSE IF s[after] = ","
                                   THEN ParseMembers(s, after + 1, all)
                                   ELSE ParseFailed

\* a value from s[i] on, after optional white space
ParseValue(s, i) ==
    LET start == SkipWhile(s, i, WhiteSpace)
    IN  IF start > Len(s) THEN ParseFailed
        ELSE IF s[start] = Quote THEN ParseString(s, start)
        ELSE IF s[start] \in Digit THEN ParseNumber(s, start)
        ELSE IF s[start] = "{"
        THEN LET first == SkipWhile(s, start + 1, WhiteSpace)
             IN  IF first <= Len(s) /\ s[first] = "}"
                 THEN Parsed(JsonObject(<<>>), first + 1)
                 ELSE ParseMembers(s, start + 1, <<>>)
        ELSE ParseFailed

\* JSON.parse(s): [ok |-> FALSE] stands for the SyntaxError it throws
JSONParseText(s) ==
    LET value == ParseValue(s, 1)
    IN  IF value.ok /\ SkipWhile(s, value.next, WhiteSpace) > Len(s)
        THEN [ok |-> TRUE, value |-> value.value]
        ELSE ParseFailed

\* JSON.stringify(value) without indentation, as characters
RECURSIVE JSONStringifyValue(_)
RECURSIVE StringifyMembers(_)
StringifyMembers(members) ==
    IF members = <<>> THEN <<>>
    ELSE <<Quote>> \o Head(members).key \o <<Quote, ":">> \o JSONStringifyValue(Head(members).value)
            \o (IF Len(members) > 1 THEN <<",">> ELSE <<>>) \o StringifyMembers(Tail(members))
JSONStringifyValue(value) ==
    CASE value.t = "number" -> Digits(value.v)
      [] value.t = "string" -> <<Quote>> \o value.v \o <<Quote>>
      [] value.t = "object" -> <<"{">> \o StringifyMembers(value.v) \o <<"}">>

\* the arguments strings of the tool calls in the requests
ArgsObject == <<"{", Quote, "a", Quote, ":", Quote, "b", Quote, "}">>
ArgsSpaced == <<"{", " ", Quote, "n", Quote, " ", ":", " ", "1", "0", " ", "}">>
ArgsEmptyObject == <<"{", "}">>
ArgsUnquotedKey == <<"{", "a", ":", "1", "}">>
ArgsTruncated == <<"{", Quote, "a", Quote, ":">>
ArgsEmptyString == <<>>
ValidArguments == {ArgsObject, ArgsSpaced, ArgsEmptyObject}
InvalidArguments == {ArgsUnquotedKey, ArgsTruncated, ArgsEmptyString}

(***************************************************************************)
(* The backend's stream: the events stream() of pi-ai yields, in the order *)
(* start, cycles of (X_start, X_delta*, X_end), then done or error.  An    *)
(* event is a record with the keys the bridge reads (bridge.ts).           *)
(***************************************************************************)
MaxEvents == 6

\* obj.key where the value, when present, is a plain value
Field(obj, key) == IF key \in DOMAIN obj THEN Some(obj[key]) ELSE None

\* truthiness of a string-valued expression: defined and not ""
TruthyString(o) == IsSome(o) /\ Val(o) # ""

Last(s) == s[Len(s)]

Deltas == {"", "Hi"}
Usage == [input |-> 5, output |-> 3]
ToolCallBlock == [type |-> "toolCall", id |-> "call_1", name |-> "get_weather",
                  arguments |-> JsonObject(<<[key |-> <<"c", "i", "t", "y">>,
                                              value |-> JsonString(<<"O", "s", "l", "o">>)]>>)]
PartialMessage == [role |-> "assistant", content |-> <<>>, usage |-> [input |-> 0, output |-> 0]]
FinalMessage(reason) ==
    [role |-> "assistant", content |-> <<[type |-> "text", text |-> "Hi"]>>,
     stopReason |-> reason, usage |-> Usage]
StopReasons == {"stop", "length", "toolUse"}

CycleKinds == {"text", "thinking", "toolcall"}
StartOf == [text |-> "text_start", thinking |-> "thinking_start", toolcall |-> "toolcall_start"]
DeltaOf == [text |-> "text_delta", thinking |-> "thinking_delta", toolcall |-> "toolcall_delta"]
EndOf == [text |-> "text_end", thinking |-> "thinking_end", toolcall |-> "toolcall_end"]

Terminal(ev) == ev.type \in {"done", "error"}

\* the cycle the stream is in, "none" between cycles
OpenCycle(evs) ==
    IF evs = <<>> THEN "none"
    ELSE LET t == Last(evs).type
         IN  IF \E k \in CycleKinds : t \in {StartOf[k], DeltaOf[k]}
             THEN CHOOSE k \in CycleKinds : t \in {StartOf[k], DeltaOf[k]}
             ELSE "none"

\* the content index of the current or next cycle: the cycles closed so far
ContentIndex(evs) ==
    Cardinality({i \in 1 .. Len(evs) : \E k \in CycleKinds : evs[i].type = EndOf[k]})

DoneEvents == {[type |-> "done", reason |-> r, message |-> FinalMessage(r)] : r \in StopReasons}
ErrorEvents == {[type |-> "error", reason |-> "error", error |-> FinalMessage("error")]}

DeltaEvents(k, ci) ==
    CASE k = "text" ->
            {[type |-> "text_delta", contentIndex |-> ci, delta |-> d] : d \in Deltas}
      [] k = "thinking" ->
            \* with the text under `content`, or under `delta` only
            {[type |-> "thinking_delta", contentIndex |-> ci, delta |-> "hm", content |-> "hm"],
             [type |-> "thinking_delta", contentIndex |-> ci, delta |-> "hm"]}
      [] k = "toolcall" ->
            {[type |-> "toolcall_delta", contentIndex |-> ci, delta |-> "{",
              partial |-> PartialMessage]}

EndEvent(k, ci) ==
    CASE k = "text" -> [type |-> "text_end", contentIndex |-> ci, content |-> "Hi"]
      [] k = "thinking" -> [type |-> "thinking_end", contentIndex |-> ci, content |-> "hm"]
      [] k = "toolcall" -> [type |-> "toolcall_end", contentIndex |-> ci,
                            toolCall |-> ToolCallBlock]

\* the events the backend may yield next
NextEvents(evs) ==
    IF evs = <<>> THEN {[type |-> "start", partial |-> PartialMessage]}
    ELSE IF Terminal(Last(evs)) THEN {}
    ELSE LET k == OpenCycle(evs)
             ci == ContentIndex(evs)
         IN  IF k = "none"
             THEN {[type |-> StartOf[c], contentIndex |-> ci] : c \in CycleKinds}
                      \cup DoneEvents \cup ErrorEvents
             ELSE DeltaEvents(k, ci) \cup {EndEvent(k, ci)} \cup ErrorEvents

\* what a failing iteration of the backend's stream throws
StreamFailures == {[isError |-> TRUE, message |-> "fetch failed"],
                   [isError |-> FALSE, message |-> "aborted"]}
TypeErrorThrown == [isError |-> TRUE, message |-> "Cannot read properties of undefined"]

(***************************************************************************)
(* PiAiBridge.streamCompletion (bridge.ts): one SSEEvent {event, data} per *)
(* backend event; a throw inside the loop ends it with an error SSEEvent.  *)
(***************************************************************************)
SSEEvent(event, data) == [event |-> event, data |-> data]

BridgeErrorMessage(error) == IF error.isError THEN error.message ELSE "Unknown error"

BridgeCatch(error) == SSEEvent("error", [error |-> Some(BridgeErrorMessage(error))])

\* typeof e.content === "string" ? e.content : e.content.<key>; FALSE when it throws
ContentReadable(e) == IsSome(Field(e, "content"))

\* the switch of the loop body: the SSEEvent yielded for e, and whether the body threw
BridgeConvert(e) ==
    LET ci == Field(e, "contentIndex")
        yield(data) == [threw |-> FALSE, yielded |-> <<SSEEvent(e.type, data)>>]
        throw == [threw |-> TRUE, yielded |-> <<BridgeCatch(TypeErrorThrown)>>]
    IN  CASE e.type = "start" -> yield(e.partial)
          [] e.type \in {"text_start", "thinking_start", "toolcall_start"} ->
                yield([contentIndex |-> ci])
          [] e.type = "text_delta" ->
                yield([delta |-> Field(e, "delta"), contentIndex |-> ci])
          [] e.type = "text_end" ->
                IF ContentReadable(e)
                THEN yield([text |-> Field(e, "content"), contentIndex |-> ci])
                ELSE throw
          [] e.type = "thinking_delta" ->
                IF ContentReadable(e)
                THEN yield([delta |-> Field(e, "content"), contentIndex |-> ci])
                ELSE throw
          [] e.type = "thinking_end" ->
                IF ContentReadable(e)
                THEN yield([thinking |-> Field(e, "content"), contentIndex |-> ci])
                ELSE throw
          [] e.type = "toolcall_delta" ->
                yield([delta |-> Field(e, "delta"), contentIndex |-> ci,
                       partial |-> Field(e, "partial")])
          [] e.type = "toolcall_end" ->
                yield([toolCall |-> Field(e, "toolCall"), contentIndex |-> ci])
          [] e.type = "done" ->
                yield([reason |-> Field(e, "reason"), message |-> Field(e, "message")])
          [] e.type = "error" ->
                yield([reason |-> Field(e, "reason"), error |-> Field(e, "error")])
          [] OTHER -> [threw |-> FALSE, yielded |-> <<>>]

(***************************************************************************)
(* The Format-A stream mapper (mapper-openai.ts) and route (routes.ts).    *)
(***************************************************************************)
requestId == "req-1"
requestModel == "gpt-4"

Delta(role, content, tool_calls) ==
    [role |-> role, content |-> content, tool_calls |-> tool_calls]

\* a chat.completion.chunk with its one choice
Chunk(index, delta, finish_reason) ==
    [id |-> requestId, object |-> "chat.completion.chunk", created |-> now \div 1000,
     model |-> requestModel,
     choices |-> <<[index |-> index, delta |-> delta, finish_reason |-> finish_reason]>>]

\* JSON.stringify of a tool call's arguments object
StringifyArguments(arguments) == JSONStringifyValue(arguments)

\* a table without the entry for toolUse
finishReasonMap_NoToolUse == [stop |-> "stop", length |-> "length"]

finishReasonMap == [stop |-> "stop", length |-> "length", toolUse |-> "tool_calls"]

\* finishReasonMap[reason || "stop"] || "stop"
FinishReason(reason) ==
    LET key == IF TruthyString(reason) THEN Val(reason) ELSE "stop"
    IN  IF key \in DOMAIN finishReasonMap THEN finishReasonMap[key] ELSE "stop"

\* e.contentIndex || 0
IndexOrZero(e) == IF IsSome(Field(e, "contentIndex")) THEN e.contentIndex ELSE 0

\* streamFromPiAiEvent of mapper-openai.ts: the chunks it yields for e
OpenAIStreamFromPiAiEvent(e) ==
    LET type == Field(e, "type")
    IN  IF type = Some("text_delta") /\ TruthyString(Field(e, "delta"))
        THEN <<Chunk(IndexOrZero(e), Delta(None, Some(e.delta), None), None)>>
        ELSE IF type = Some("toolcall_end") /\ IsSome(Field(e, "toolCall"))
        THEN <<Chunk(IndexOrZero(e),
                     Delta(None, None,
                           Some(<<[index |-> 0, id |-> e.toolCall.id, type |-> "function",
                                   function |-> [name |-> e.toolCall.name,
                                                 arguments |-> StringifyArguments(
                                                                  e.toolCall.arguments)]]>>)),
                     None)>>
        ELSE IF type = Some("done")
        THEN <<Chunk(0, Delta(None, None, None), Some(FinishReason(Field(e, "reason"))))>>
        ELSE <<>>

\* the frames of the Format-A stream
DataFrame(chunk) == [frame |-> "data", chunk |-> chunk]
DoneFrame == [frame |-> "[DONE]"]
RoleChunk == Chunk(0, Delta(Some("assistant"), None, None), None)

\* the inner loop of the route: one write per chunk
OpenAIWrites(chunks) == [i \in 1 .. Len(chunks) |-> DataFrame(chunks[i])]

(***************************************************************************)
(* The Format-B stream mapper (mapper-anthropic.ts) and route.             *)
(***************************************************************************)
stopReasonMap == [stop |-> "end_turn", length |-> "max_tokens", toolUse |-> "tool_use"]

\* stopReasonMap[reason || "stop"] || "end_turn"
StopReason(reason) ==
    LET key == IF TruthyString(reason) THEN Val(reason) ELSE "stop"
    IN  IF key \in DOMAIN stopReasonMap THEN stopReasonMap[key] ELSE "end_turn"

\* streamFromPiAiEvent of mapper-anthropic.ts: the named events it yields for e
AnthropicStreamFromPiAiEvent(e) ==
    LET type == Field(e, "type")
        message == Field(e, "message")
    IN  (IF type = Some("start") /\ IsSome(message)
         THEN <<[event |-> "message_start",
                 data |-> [id |-> requestId, type |-> "message", role |-> "assistant",
                           content |-> <<>>, model |-> requestModel, stop_reason |-> None,
                           usage |-> [input_tokens |-> 0, output_tokens |-> 0]]]>>
         ELSE <<>>)
        \o
        (IF type = Some("text_delta") /\ TruthyString(Field(e, "delta"))
         THEN <<[event |-> "content_block_delta",
                 data |-> [type |-> "content_block_delta", index |-> IndexOrZero(e),
                           delta |-> [type |-> "text_delta", text |-> e.delta]]]>>
         ELSE <<>>)
        \o
        (IF type = Some("toolcall_end") /\ IsSome(Field(e, "toolCall"))
         THEN <<[event |-> "content_block_stop",
                 data |-> [type |-> "content_block_stop", index |-> IndexOrZero(e)]]>>
         ELSE <<>>)
        \o
        (IF type = Some("done") /\ IsSome(message)
         THEN <<[event |-> "message_delta",
                 data |-> [type |-> "message_delta", delta |-> <<>>,
                           usage |-> [output_tokens |-> e.message.usage.output]]],
                [event |-> "message_stop",
                 data |-> [type |-> "message_stop",
                           stop_reason |-> StopReason(Field(e, "reason"))]]>>
         ELSE <<>>)

\* the frames of the Format-B stream
EventFrame(name) == [frame |-> "event", name |-> name]
PayloadFrame(data) == [frame |-> "data", data |-> data]

\* the inner loop of the route: two writes per event that has data
RECURSIVE AnthropicWrites(_)
AnthropicWrites(events) ==
    IF events = <<>> THEN <<>>
    ELSE (IF "data" \in DOMAIN Head(events)
          THEN <<EventFrame(Head(events).event), PayloadFrame(Head(events).data)>>
          ELSE <<>>)
         \o AnthropicWrites(Tail(events))

(***************************************************************************)
(* The streaming callback of the two routes, one step per backend event.   *)
(***************************************************************************)
Formats == {"A", "B"}

\* what the route writes for the SSEEvents the bridge has yielded
RECURSIVE RouteWrites(_, _)
RouteWrites(f, yielded) ==
    IF yielded = <<>> THEN <<>>
    ELSE (IF f = "A"
          THEN OpenAIWrites(OpenAIStreamFromPiAiEvent(Head(yielded)))
          ELSE AnthropicWrites(AnthropicStreamFromPiAiEvent(Head(yielded))))
         \o RouteWrites(f, Tail(yielded))

\* request.stream is true: streamText's callback starts
StreamStart(f) ==
    /\ streamPc = "idle"
    /\ format' = f
    /\ written' = IF f = "A" THEN <<DataFrame(RoleChunk)>> ELSE <<>>
    /\ streamPc' = "streaming"
    /\ UNCHANGED <<now, storeVars, gateVars, loginVars, lastCompleted, piEvents, bridgeLog,
                   client, apiVars, opVars>>

\* stream.write(frame), awaited: it resolves also when the client is gone,
\* and the frame is then dropped
StreamWrite(frames) == IF client = "connected" THEN written \o frames ELSE written

\* the bridge has yielded: the route maps the SSEEvents and writes the result
Forward(yielded, ended) ==
    /\ bridgeLog' = bridgeLog \o yielded
    /\ written' = StreamWrite(RouteWrites(format, yielded))
    /\ streamPc' = IF ended THEN "ended" ELSE "streaming"

\* the backend yields ev
StreamYield(ev) ==
    /\ streamPc = "streaming"
    /\ ev \in NextEvents(piEvents)
    /\ Len(piEvents) < (IF Terminal(ev) THEN MaxEvents ELSE MaxEvents - 1)
    /\ piEvents' = Append(piEvents, ev)
    /\ LET b == BridgeConvert(ev)
       IN  Forward(b.yielded, b.threw \/ Terminal(ev))
    /\ UNCHANGED <<now, storeVars, gateVars, loginVars, lastCompleted, format, client, apiVars,
                   opVars>>

\* the backend's stream throws instead of yielding
StreamThrow(error) ==
    /\ streamPc = "streaming"
    /\ Forward(<<BridgeCatch(error)>>, TRUE)
    /\ UNCHANGED <<now, storeVars, gateVars, loginVars, lastCompleted, format, piEvents, client,
                   apiVars, opVars>>

\* getModel(modelId), called before the generator's try block, throws for an
\* unknown model id: the first next() of the bridge's generator rejects, the
\* route's for-await rethrows, the callback rejects and the stream is closed
GetModelThrows ==
    /\ streamPc = "streaming"
    /\ piEvents = <<>>
    /\ bridgeLog = <<>>
    /\ streamPc' = "failed"
    /\ UNCHANGED <<now, storeVars, gateVars, loginVars, lastCompleted, format, piEvents,
                   bridgeLog, written, client, apiVars, opVars>>

\* the bridge's generator has returned: the callback ends
StreamFinish ==
    /\ streamPc = "ended"
    /\ written' = IF format = "A" THEN StreamWrite(<<DoneFrame>>) ELSE written
    /\ streamPc' = "closed"
    /\ UNCHANGED <<now, storeVars, gateVars, loginVars, lastCompleted, format, piEvents,
                   bridgeLog, client, apiVars, opVars>>

StreamInit ==
    /\ now = 0
    /\ AUTH_MODE = "passthrough"
    /\ authFile = NoFile
    /\ writing = {}
    /\ unlinked = {}
    /\ reqs = [r \in Requests |-> IdleRequest]
    /\ decl = 1
    /\ cleaned = None
    /\ pendingLogins = <<>>
    /\ flows = <<>>
    /\ loginReturn = <<>>
    /\ lastCompleted = None
    /\ format = "A"
    /\ streamPc = "idle"
    /\ piEvents = <<>>
    /\ bridgeLog = <<>>
    /\ written = <<>>
    /\ client = "connected"
    /\ api = [k \in Calls |-> IdleCall]
    /\ ops = [o \in Ops |-> IdleOp]
    /\ committed = None

StreamNext ==
    \/ \E f \in Formats : StreamStart(f)
    \/ \E ev \in NextEvents(piEvents) : StreamYield(ev)
    \/ \E error \in StreamFailures : StreamThrow(error)
    \/ GetModelThrows
    \/ StreamFinish

StreamSpec == StreamInit /\ [][StreamNext]_vars

\* the client closes the connection of a streaming response in progress; the
\* routes register no abort handler and pass no signal to the bridge
ClientDisconnects ==
    /\ streamPc \in {"streaming", "ended"}
    /\ client = "connected"
    /\ client' = "gone"
    /\ UNCHANGED <<now, storeVars, gateVars, loginVars, lastCompleted, format, streamPc, piEvents,
                   bridgeLog, written, apiVars, opVars>>

DisconnectNext ==
    \/ StreamNext
    \/ ClientDisconnects

\* the streaming routes with clients that may leave: the backend goes on to
\* yield or to fail and the callback goes on to run, as long as they can
DisconnectSpec == StreamInit /\ [][DisconnectNext]_vars /\ WF_vars(StreamNext)

(***************************************************************************)
(* The model alias tables and resolveModelAlias of the two mappers.  The   *)
(* tables are object literals: a name that is not a key of the table is    *)
(* looked up on Object.prototype.  A value of the lookup is                *)
(* [string |-> s] for a string and [member |-> name] for the function or   *)
(* object Object.prototype holds under `name`.                             *)
(***************************************************************************)
StringValue(s) == [string |-> s]
PrototypeMember(name) == [member |-> name]

ObjectPrototypeNames ==
    {"constructor", "toString", "toLocaleString", "valueOf", "hasOwnProperty",
     "isPrototypeOf", "propertyIsEnumerable", "__proto__"}

OPENAI_MODEL_ALIASES ==
    [x \in {"gpt-4", "gpt-4-turbo", "gpt-4o", "gpt-4o-mini", "gpt-3.5-turbo",
            "claude-3-opus", "claude-3-sonnet", "claude-3-haiku"} |->
        CASE x \in {"gpt-4", "gpt-4-turbo", "gpt-4o", "claude-3-sonnet"} -> "claude-sonnet-4.5"
          [] x \in {"gpt-4o-mini", "claude-3-haiku"} -> "claude-haiku-4.5"
          [] x = "gpt-3.5-turbo" -> "gpt-4.1"
          [] x = "claude-3-opus" -> "claude-opus-4.5"]

ANTHROPIC_MODEL_ALIASES ==
    [x \in {"claude-3-opus-20240229", "claude-3-sonnet-20240229",
            "claude-3-5-sonnet-20240620", "claude-3-haiku-20240307",
            "claude-3-opus", "claude-3-sonnet", "claude-3-haiku"} |->
        CASE x \in {"claude-3-opus-20240229", "claude-3-opus"} -> "claude-opus-4.5"
          [] x \in {"claude-3-sonnet-20240229", "claude-3-5-sonnet-20240620",
                    "claude-3-sonnet"} -> "claude-sonnet-4.5"
          [] x \in {"claude-3-haiku-20240307", "claude-3-haiku"} -> "claude-haiku-4.5"]

\* table[name]: None stands for undefined
TableLookup(table, name) ==
    IF name \in DOMAIN table THEN Some(StringValue(table[name]))
    ELSE IF name \in ObjectPrototypeNames THEN Some(PrototypeMember(name))
    ELSE None

\* MODEL_ALIASES[model] || model
ResolveIn(table, model) ==
    LET found == TableLookup(table, model)
    IN  IF IsSome(found) /\ Val(found) # StringValue("") THEN Val(found)
        ELSE StringValue(model)

OpenAIResolveModelAlias(model) == ResolveIn(OPENAI_MODEL_ALIASES, model)
AnthropicResolveModelAlias(model) == ResolveIn(ANTHROPIC_MODEL_ALIASES, model)

(***************************************************************************)
(* Request normalization of the Format-A mapper (mapper-openai.ts).  A     *)
(* text is a sequence of characters; a content that is a string is         *)
(* Str(chars), a content that is an array of blocks is Arr(blocks).  The   *)
(* blocks of the requests are text blocks.                                 *)
(***************************************************************************)
Str(chars) == [str |-> chars]
Arr(items) == [arr |-> items]
IsStr(content) == "str" \in DOMAIN content

TextBlock(chars) == [type |-> "text", text |-> chars]

\* content.map(block => ...) of convertContent, for the block at hand
ConvertBlock(block) ==
    IF block.type = "text" THEN TextBlock(block.text) ELSE TextBlock(<<>>)

\* convertContent(content): a string as it is, a one-block array as that
\* block, any other array as the array of converted blocks
convertContent(content) ==
    IF IsStr(content) THEN content
    ELSE LET converted == [i \in 1 .. Len(content.arr) |-> ConvertBlock(content.arr[i])]
         IN  IF Len(converted) = 1 THEN converted[1] ELSE Arr(converted)

\* msg.content as a condition: undefined and "" are falsy, an array is truthy
ContentTruthy(msg) == "content" \in DOMAIN msg /\ msg.content # Str(<<>>)

\* msg.content ? convertContent(msg.content) : ""
ConvertedOrEmpty(msg) == IF ContentTruthy(msg) THEN convertContent(msg.content) ELSE Str(<<>>)

\* msg.key || "" for an optional string
StringOrEmpty(msg, key) == IF key \in DOMAIN msg THEN msg[key] ELSE ""

\* the tool calls of an assistant message, none when it has no tool_calls
ToolCallsOf(msg) == IF "tool_calls" \in DOMAIN msg THEN msg.tool_calls ELSE <<>>

\* the text blocks the assistant case pushes before the tool calls
AssistantTextBlocks(msg) ==
    LET content == ConvertedOrEmpty(msg)
    IN  IF IsStr(content) /\ content.str # <<>> THEN <<TextBlock(content.str)>>
        ELSE IF ~IsStr(content) /\ "type" \in DOMAIN content /\ content.type = "text"
        THEN <<content>>
        ELSE <<>>

\* the toolCall block of one tool call whose arguments parse
ToolCallBlockOf(tc) ==
    [type |-> "toolCall", id |-> tc.id, name |-> tc.function.name,
     arguments |-> JSONParseText(tc.function.arguments).value]

\* a conversion that leaves tool messages out
OpenAIConvertMessage_NoTool(msg) ==
    IF msg.role = "user"
    THEN <<[role |-> "user", content |-> <<ConvertedOrEmpty(msg)>>, timestamp |-> now]>>
    ELSE IF msg.role = "assistant"
    THEN <<[role |-> "assistant",
            content |-> AssistantTextBlocks(msg)
                \o [i \in 1 .. Len(ToolCallsOf(msg)) |-> ToolCallBlockOf(ToolCallsOf(msg)[i])]]>>
    ELSE <<>>

\* the internal messages one request message becomes (none for `system`)
OpenAIConvertMessage(msg) ==
    CASE msg.role = "user" ->
            <<[role |-> "user", content |-> <<ConvertedOrEmpty(msg)>>, timestamp |-> now]>>
      [] msg.role = "assistant" ->
            <<[role |-> "assistant",
               content |-> AssistantTextBlocks(msg)
                   \o [i \in 1 .. Len(ToolCallsOf(msg)) |-> ToolCallBlockOf(ToolCallsOf(msg)[i])]]>>
      [] msg.role = "tool" ->
            <<[role |-> "toolResult", toolCallId |-> StringOrEmpty(msg, "tool_call_id"),
               toolName |-> StringOrEmpty(msg, "name"),
               content |-> <<ConvertedOrEmpty(msg)>>, isError |-> FALSE, timestamp |-> now]>>
      [] OTHER -> <<>>

\* JSON.parse throws on some tool call of the message
OpenAIMessageThrows(msg) ==
    /\ msg.role = "assistant"
    /\ \E i \in 1 .. Len(ToolCallsOf(msg)) :
            ~JSONParseText(ToolCallsOf(msg)[i].function.arguments).ok

RECURSIVE FlatMap(_, _)
FlatMap(Op(_), s) == IF s = <<>> THEN <<>> ELSE Op(Head(s)) \o FlatMap(Op, Tail(s))

\* request.messages.find(m => m.role === "system"), then its text
OpenAISystemPrompt(messages) ==
    LET IsSystem(m) == m.role = "system"
        systems == SelectSeq(messages, IsSystem)
    IN  IF systems = <<>> \/ ~ContentTruthy(systems[1]) THEN None
        ELSE IF IsStr(systems[1].content) THEN Some(systems[1].content.str)
        ELSE LET IsText(b) == b.type = "text"
                 texts == SelectSeq(systems[1].content.arr, IsText)
             IN  IF texts = <<>> THEN Some(<<>>) ELSE Some(texts[1].text)

\* convertTools of mapper-openai.ts
OpenAIConvertTools(request) ==
    IF "tools" \notin DOMAIN request THEN None
    ELSE Some([i \in 1 .. Len(request.tools) |->
                 [name |-> request.tools[i].function.name,
                  description |-> StringOrEmpty(request.tools[i].function, "description"),
                  parameters |-> Field(request.tools[i].function, "parameters")]])

SyntaxError == [isError |-> TRUE, message |-> "Unexpected token in JSON"]

\* toPiAiContext of mapper-openai.ts: the context, or the SyntaxError of JSON.parse
OpenAIToPiAiContext(request) ==
    IF \E i \in 1 .. Len(request.messages) : OpenAIMessageThrows(request.messages[i])
    THEN [ok |-> FALSE, error |-> SyntaxError]
    ELSE [ok |-> TRUE,
          context |-> [systemPrompt |-> OpenAISystemPrompt(request.messages),
                       messages |-> FlatMap(OpenAIConvertMessage, request.messages),
                       tools |-> OpenAIConvertTools(request)]]

(***************************************************************************)
(* Request normalization of the Format-B mapper (mapper-anthropic.ts).     *)
(***************************************************************************)
\* the block a user message's block becomes
AnthropicUserBlock(block) ==
    CASE block.type = "text" -> TextBlock(block.text)
      [] block.type = "image" ->
            [type |-> "image", data |-> block.source.data, mimeType |-> block.source.media_type]
      [] block.type = "tool_use" ->
            [type |-> "toolCall", id |-> block.id, name |-> block.name, arguments |-> block.input]
      [] OTHER -> TextBlock(<<>>)

\* the block an assistant message's block becomes
AnthropicAssistantBlock(block) ==
    CASE block.type = "text" -> TextBlock(block.text)
      [] block.type = "tool_use" ->
            [type |-> "toolCall", id |-> block.id, name |-> block.name, arguments |-> block.input]
      [] OTHER -> TextBlock(<<>>)

AnthropicConvertMessage(msg) ==
    CASE msg.role = "user" ->
            <<[role |-> "user",
               content |-> IF IsStr(msg.content) THEN <<TextBlock(msg.content.str)>>
                           ELSE [i \in 1 .. Len(msg.content.arr) |->
                                    AnthropicUserBlock(msg.content.arr[i])],
               timestamp |-> now]>>
      [] msg.role = "assistant" ->
            <<[role |-> "assistant",
               content |-> IF IsStr(msg.content) THEN <<TextBlock(msg.content.str)>>
                           ELSE [i \in 1 .. Len(msg.content.arr) |->
                                    AnthropicAssistantBlock(msg.content.arr[i])]]>>
      [] OTHER -> <<>>

\* convertTools of mapper-anthropic.ts
AnthropicConvertTools(request) ==
    IF "tools" \notin DOMAIN request THEN None
    ELSE Some([i \in 1 .. Len(request.tools) |->
                 [name |-> request.tools[i].name,
                  description |-> request.tools[i].description,
                  parameters |-> request.tools[i].input_schema]])

\* toPiAiContext of mapper-anthropic.ts
AnthropicToPiAiContext(request) ==
    [ok |-> TRUE,
     context |-> [systemPrompt |-> IF "system" \in DOMAIN request
                                   THEN Some(request.system) ELSE None,
                  messages |-> FlatMap(AnthropicConvertMessage, request.messages),
                  tools |-> AnthropicConvertTools(request)]]

(***************************************************************************)
(* Response construction of the two mappers.                               *)
(***************************************************************************)
IsTextBlock(block) == block.type = "text"
IsToolCallBlock(block) == block.type = "toolCall"

\* a join that keeps the first text only
Join_FirstOnly(texts) == IF texts = <<>> THEN <<>> ELSE Head(texts)

\* contentBlocks.join("")
RECURSIVE Join(_)
Join(texts) == IF texts = <<>> THEN <<>> ELSE Head(texts) \o Join(Tail(texts))

responseFinishReasonMap ==
    [stop |-> "stop", length |-> "length", toolUse |-> "tool_calls", error |-> "stop"]

\* fromPiAiResponse of mapper-openai.ts
OpenAIFromPiAiResponse(piaiMessage, model) ==
    LET texts == SelectSeq(piaiMessage.content, IsTextBlock)
        calls == SelectSeq(piaiMessage.content, IsToolCallBlock)
        toolCalls == [i \in 1 .. Len(calls) |->
                        [id |-> calls[i].id, type |-> "function",
                         function |-> [name |-> calls[i].name,
                                       arguments |-> StringifyArguments(calls[i].arguments)]]]
    IN  [id |-> requestId, object |-> "chat.completion", created |-> now \div 1000,
         model |-> model,
         choices |-> <<[index |-> 0,
                        message |-> [role |-> "assistant",
                                     content |-> IF Len(texts) > 0
                                                 THEN Some(Join([i \in 1 .. Len(texts) |->
                                                                    texts[i].text]))
                                                 ELSE None,
                                     tool_calls |-> IF Len(toolCalls) > 0
                                                    THEN Some(toolCalls) ELSE None],
                        finish_reason |->
                            IF piaiMessage.stopReason \in DOMAIN responseFinishReasonMap
                            THEN responseFinishReasonMap[piaiMessage.stopReason]
                            ELSE "stop"]>>,
         usage |-> [prompt_tokens |-> piaiMessage.usage.input,
                    completion_tokens |-> piaiMessage.usage.output,
                    total_tokens |-> piaiMessage.usage.input + piaiMessage.usage.output]]

responseStopReasonMap ==
    [stop |-> "end_turn", length |-> "max_tokens", toolUse |-> "tool_use", error |-> "end_turn"]

\* a mapping that puts a tool call's name into a text block
AnthropicOutputBlock_CallAsText(block) ==
    IF block.type = "text" THEN <<[type |-> "text", text |-> block.text]>>
    ELSE IF block.type = "toolCall" THEN <<[type |-> "text", text |-> <<>>]>>
    ELSE <<>>

\* the output block of one block of the backend message, none for other types
AnthropicOutputBlock(block) ==
    IF block.type = "text" THEN <<[type |-> "text", text |-> block.text]>>
    ELSE IF block.type = "toolCall"
    THEN <<[type |-> "tool_use", id |-> block.id, name |-> block.name,
            input |-> block.arguments]>>
    ELSE <<>>

\* fromPiAiResponse of mapper-anthropic.ts
AnthropicFromPiAiResponse(piaiMessage, model) ==
    [id |-> requestId, type |-> "message", role |-> "assistant",
     content |-> FlatMap(AnthropicOutputBlock, piaiMessage.content),
     model |-> model,
     stop_reason |-> IF piaiMessage.stopReason \in DOMAIN responseStopReasonMap
                     THEN responseStopReasonMap[piaiMessage.stopReason]
                     ELSE "end_turn",
     usage |-> [input_tokens |-> piaiMessage.usage.input,
                output_tokens |-> piaiMessage.usage.output]]

(***************************************************************************)
(* The requests and the backend's answers the environment supplies.        *)
(***************************************************************************)
Hi == <<"H", "i">>
Weather == JsonObject(<<[key |-> <<"a">>, value |-> JsonString(<<"b">>)]>>)

UserHi == [role |-> "user", content |-> Str(Hi)]
SystemBrief == [role |-> "system", content |-> Str(<<"B", "e">>)]
AssistantCall(arguments) ==
    [role |-> "assistant",
     tool_calls |-> <<[id |-> "call_1", type |-> "function",
                       function |-> [name |-> "get_weather", arguments |-> arguments]]>>]
ToolAnswer == [role |-> "tool", tool_call_id |-> "call_1", content |-> Str(<<"7">>)]

OpenAIMessageLists ==
    {<<UserHi>>, <<SystemBrief, UserHi>>}
        \cup {<<UserHi, AssistantCall(a), ToolAnswer>> : a \in ValidArguments}
        \cup {<<UserHi, AssistantCall(a)>> : a \in InvalidArguments}

OpenAIModels == {"gpt-4", "claude-3-opus", "claude-opus-4.5", "unknown-model", "constructor"}

\* the JSON bodies posted to /v1/chat/completions
OpenAIBodies ==
    {[model |-> "gpt-4", messages |-> ms] : ms \in OpenAIMessageLists}
        \cup {[model |-> m, messages |-> <<UserHi>>] : m \in OpenAIModels}
        \cup {[model |-> "gpt-4", messages |-> <<UserHi>>, stream |-> TRUE],
              [model |-> "gpt-4", messages |-> <<UserHi, AssistantCall(ArgsTruncated)>>,
               stream |-> TRUE],
              [messages |-> <<UserHi>>]}

AnthropicUse == [type |-> "tool_use", id |-> "call_1", name |-> "get_weather", input |-> Weather]
AnthropicResult(isError) ==
    [type |-> "tool_result", tool_use_id |-> "call_1", content |-> Str(<<"7">>),
     is_error |-> isError]

AnthropicMessageLists ==
    {<<[role |-> "user", content |-> Str(Hi)]>>,
     <<[role |-> "user", content |-> Arr(<<TextBlock(Hi)>>)],
       [role |-> "assistant", content |-> Arr(<<AnthropicUse>>)],
       [role |-> "user", content |-> Arr(<<AnthropicResult(TRUE)>>)]>>}

AnthropicModels ==
    {"claude-3-opus", "claude-3-5-sonnet-20240620", "gpt-4", "unknown-model", "toString"}

\* the JSON bodies posted to /v1/messages
AnthropicBodies ==
    {[model |-> "claude-3-opus", max_tokens |-> 16, messages |-> ms] :
        ms \in AnthropicMessageLists}
        \cup {[model |-> m, max_tokens |-> 16, messages |-> <<[role |-> "user",
                                                                 content |-> Str(Hi)]>>] :
                 m \in AnthropicModels}
        \cup {[model |-> "claude-3-opus", max_tokens |-> 16, stream |-> TRUE,
               messages |-> <<[role |-> "user", content |-> Str(Hi)]>>],
              [model |-> "claude-3-opus",
               messages |-> <<[role |-> "user", content |-> Str(Hi)]>>]}

\* the AssistantMessages complete() resolves with
BackendMessage(content, stopReason) ==
    [role |-> "assistant", content |-> content, stopReason |-> stopReason, usage |-> Usage]

BackendMessages ==
    {BackendMessage(<<TextBlock(<<"H", "e">>), TextBlock(<<"y">>)>>, "stop"),
     BackendMessage(<<[type |-> "thinking", thinking |-> <<"h", "m">>],
                      [type |-> "toolCall", id |-> "call_2", name |-> "get_weather",
                       arguments |-> Weather]>>, "toolUse"),
     BackendMessage(<<>>, "error")}

\* what complete() rejects with: two Errors that differ in their text only,
\* and a value that is not an Error
CompleteFailures ==
    {[isError |-> TRUE, message |-> "upstream 500 at copilot.internal"],
     [isError |-> TRUE, message |-> "quota exceeded for account 42"],
     [isError |-> FALSE, message |-> "aborted"]}

\* the model ids getModel() of the backend knows
BackendModels == {"claude-sonnet-4.5", "claude-haiku-4.5", "claude-opus-4.5", "gpt-4.1"}
ModelNotFound == [isError |-> TRUE, message |-> "Model not found"]

(***************************************************************************)
(* The handlers of POST /v1/chat/completions (routes.ts of api/openai) and *)
(* POST /v1/messages (routes.ts of api/anthropic), for a request that has  *)
(* passed the auth gate, and the server's onError (server.ts).             *)
(***************************************************************************)
\* zValidator("json", schema): the keys the schema requires are present
RequiredKeys_SameForBoth(f) == {"model", "messages"}
RequiredKeys(f) == IF f = "A" THEN {"model", "messages"} ELSE {"model", "max_tokens", "messages"}
SchemaAccepts(f, body) == RequiredKeys(f) \subseteq DOMAIN body

\* c.req.valid("json"): the body with the schema's default for `stream`
ValidRequest(body) == IF "stream" \in DOMAIN body THEN body ELSE body @@ [stream |-> FALSE]

ValidationFailure == [success |-> FALSE, error |-> [name |-> "ZodError"]]

\* app.onError of the server
OnError(err) ==
    [error |-> [message |-> IF err.message # "" THEN err.message ELSE "Internal server error",
                type |-> "api_error"]]

\* error instanceof Error ? error.message : "An error occurred during completion"
CompletionErrorMessage(error) ==
    IF error.isError THEN error.message ELSE "An error occurred during completion"

\* the body of the catch block of each route
RouteCatch(f, error) ==
    IF f = "A"
    THEN [error |-> [message |-> CompletionErrorMessage(error), type |-> "api_error",
                     code |-> "internal_error"]]
    ELSE [error |-> [type |-> "api_error", message |-> CompletionErrorMessage(error)]]

Respond(call, status, body) ==
    [call EXCEPT !.pc = "responded", !.status = status, !.response = Some(body)]

\* the handler from the arrival of the request to its first await
Handle(k, f, body) ==
    /\ api[k].pc = "idle"
    /\ LET arrived == [api[k] EXCEPT !.format = f, !.body = Some(body)]
       IN  IF ~SchemaAccepts(f, body)
           THEN api' = [api EXCEPT ![k] = Respond(arrived, 400, ValidationFailure)]
           ELSE LET request == ValidRequest(body)
                    modelId == IF f = "A" THEN OpenAIResolveModelAlias(request.model)
                               ELSE AnthropicResolveModelAlias(request.model)
                    converted == IF f = "A" THEN OpenAIToPiAiContext(request)
                                 ELSE AnthropicToPiAiContext(request)
                    resolved == [arrived EXCEPT !.modelId = Some(modelId)]
                IN  IF ~converted.ok
                    THEN \* toPiAiContext throws outside the try block
                         api' = [api EXCEPT ![k] = Respond(resolved, 500,
                                                           OnError(converted.error))]
                    ELSE LET ready == [resolved EXCEPT !.context = Some(converted.context)]
                         IN  IF request.stream
                             THEN api' = [api EXCEPT ![k] = [ready EXCEPT !.pc = "streaming",
                                                                          !.status = 200]]
                             ELSE IF modelId \notin {StringValue(m) : m \in BackendModels}
                             THEN \* getModel throws inside bridge.complete
                                  api' = [api EXCEPT ![k] =
                                            Respond([ready EXCEPT !.failure = Some(ModelNotFound)],
                                                    500, RouteCatch(f, ModelNotFound))]
                             ELSE api' = [api EXCEPT ![k] = [ready EXCEPT !.pc = "awaiting",
                                                                          !.backendCalls = 1]]
    /\ UNCHANGED <<now, storeVars, gateVars, loginVars, lastCompleted, streamVars, opVars>>

PostChatCompletions(k, body) == Handle(k, "A", body)
PostMessages(k, body) == Handle(k, "B", body)

\* complete() resolves: the handler maps the message and answers 200
CompleteResolves(k, piaiMessage) ==
    /\ api[k].pc = "awaiting"
    /\ LET model == Val(api[k].body).model
       IN  api' = [api EXCEPT ![k] =
                     Respond([@ EXCEPT !.piaiMessage = Some(piaiMessage)], 200,
                             IF api[k].format = "A"
                             THEN OpenAIFromPiAiResponse(piaiMessage, model)
                             ELSE AnthropicFromPiAiResponse(piaiMessage, model))]
    /\ UNCHANGED <<now, storeVars, gateVars, loginVars, lastCompleted, streamVars, opVars>>

\* complete() rejects: the bridge rethrows and the route's catch answers 500
CompleteRejects(k, error) ==
    /\ api[k].pc = "awaiting"
    /\ api' = [api EXCEPT ![k] = Respond([@ EXCEPT !.failure = Some(error)], 500,
                                         RouteCatch(api[k].format, error))]
    /\ UNCHANGED <<now, storeVars, gateVars, loginVars, lastCompleted, streamVars, opVars>>

ApiInit ==
    /\ now = 0
    /\ AUTH_MODE = "passthrough"
    /\ authFile = NoFile
    /\ writing = {}
    /\ unlinked = {}
    /\ reqs = [r \in Requests |-> IdleRequest]
    /\ decl = 1
    /\ cleaned = None
    /\ pendingLogins = <<>>
    /\ flows = <<>>
    /\ loginReturn = <<>>
    /\ lastCompleted = None
    /\ format = "A"
    /\ streamPc = "idle"
    /\ piEvents = <<>>
    /\ bridgeLog = <<>>
    /\ written = <<>>
    /\ client = "connected"
    /\ api = [k \in Calls |-> IdleCall]
    /\ ops = [o \in Ops |-> IdleOp]
    /\ committed = None

ApiNext ==
    \/ \E k \in Calls, body \in OpenAIBodies : PostChatCompletions(k, body)
    \/ \E k \in Calls, body \in AnthropicBodies : PostMessages(k, body)
    \/ \E k \in Calls, m \in BackendMessages : CompleteResolves(k, m)
    \/ \E k \in Calls, e \in CompleteFailures : CompleteRejects(k, e)

ApiSpec == ApiInit /\ [][ApiNext]_vars

(***************************************************************************)
(* The credential store's specification: saves, clears, loads and exists   *)
(* calls of several callers, in every interleaving of their steps.         *)
(***************************************************************************)
StoreInit ==
    /\ now = 0
    /\ AUTH_MODE = "managed"
    /\ authFile = NoFile
    /\ writing = {}
    /\ unlinked = {}
    /\ reqs = [r \in Requests |-> IdleRequest]
    /\ decl = 1
    /\ cleaned = None
    /\ pendingLogins = <<>>
    /\ flows = <<>>
    /\ loginReturn = <<>>
    /\ lastCompleted = None
    /\ format = "A"
    /\ streamPc = "idle"
    /\ piEvents = <<>>
    /\ bridgeLog = <<>>
    /\ written = <<>>
    /\ client = "connected"
    /\ api = [k \in Calls |-> IdleCall]
    /\ ops = [o \in Ops |-> IdleOp]
    /\ committed = None

StoreNext ==
    \/ \E c \in NewCredentials : SaveOpen(c)
    \/ \E c \in writing : SaveWrite(c)
    \/ \E o \in Ops : ClearExists(o)
    \/ \E o \in Ops : ClearUnlink(o)
    \/ \E o \in Ops : LoadExists(o)
    \/ \E o \in Ops : LoadRead(o)
    \/ \E o \in Ops : Exists(o)

StoreSpec == StoreInit /\ [][StoreNext]_vars

(***************************************************************************)
(* The two mappers as functions (mapper-openai.ts, mapper-anthropic.ts):   *)
(* each call applies toPiAiContext, fromPiAiResponse or                    *)
(* streamFromPiAiEvent to one input, as the mappers' tests do.             *)
(***************************************************************************)
Yo == <<"Y", "o">>
ArgsLocation ==
    <<"{", Quote, "l", "o", "c", "a", "t", "i", "o", "n", Quote, ":",
      Quote, "L", "o", "n", "d", "o", "n", Quote, "}">>
\* {"b":1,"10":2,"2":3,"b":4}
ArgsIndexKeys ==
    <<"{", Quote, "b", Quote, ":", "1", ",", Quote, "1", "0", Quote, ":", "2", ",",
      Quote, "2", Quote, ":", "3", ",", Quote, "b", Quote, ":", "4", "}">>
RoundTripArguments == ValidArguments \cup {ArgsLocation, ArgsIndexKeys}

SystemLater == [role |-> "system", content |-> Str(Yo)]
SystemBlocks == [role |-> "system", content |-> Arr(<<TextBlock(<<"B", "e">>), TextBlock(Yo)>>)]
ToolCall(id, arguments) ==
    [id |-> id, type |-> "function", function |-> [name |-> "get_weather", arguments |-> arguments]]
AssistantSays(content, toolCalls) ==
    [role |-> "assistant", content |-> content, tool_calls |-> toolCalls]
AssistantSilent == [role |-> "assistant"]
UserSilent == [role |-> "user"]

MapperOpenAIMessageLists ==
    {<<UserHi>>, <<UserSilent>>,
     <<SystemBrief, UserHi>>,
     <<UserHi, SystemBrief, SystemLater>>,
     <<SystemBlocks, UserHi, SystemBrief>>,
     <<UserHi, AssistantSays(Str(Hi), <<ToolCall("call_1", ArgsObject),
                                        ToolCall("call_2", ArgsSpaced)>>), ToolAnswer, UserHi>>,
     <<UserHi, AssistantSays(Arr(<<TextBlock(Hi)>>), <<ToolCall("call_1", ArgsObject)>>)>>,
     <<UserHi, AssistantSays(Arr(<<TextBlock(Hi), TextBlock(Yo)>>),
                             <<ToolCall("call_1", ArgsObject)>>)>>,
     <<UserHi, AssistantSilent, UserHi>>,
     <<UserHi, AssistantCall(ArgsTruncated)>>}
        \cup {<<UserHi, AssistantCall(a), ToolAnswer>> : a \in RoundTripArguments}

MapperOpenAIRequests ==
    {[model |-> "gpt-4", messages |-> ms, stream |-> FALSE] : ms \in MapperOpenAIMessageLists}

AnthropicResultUnflagged ==
    [type |-> "tool_result", tool_use_id |-> "call_1", content |-> Str(<<"7">>)]
AnthropicSays(role, content) == [role |-> role, content |-> content]

MapperAnthropicMessageLists ==
    {<<AnthropicSays("user", Str(Hi))>>,
     <<AnthropicSays("user", Arr(<<>>))>>,
     <<AnthropicSays("user", Str(Hi)), AnthropicSays("assistant", Str(Yo)),
       AnthropicSays("user", Arr(<<TextBlock(Hi), TextBlock(Yo)>>))>>,
     <<AnthropicSays("user", Str(Hi)),
       AnthropicSays("assistant", Arr(<<TextBlock(Yo), AnthropicUse>>)),
       AnthropicSays("user", Arr(<<AnthropicResultUnflagged>>))>>}
        \cup {<<AnthropicSays("user", Str(Hi)),
                AnthropicSays("assistant", Arr(<<AnthropicUse>>)),
                AnthropicSays("user", Arr(<<AnthropicResult(b)>>))>> : b \in BOOLEAN}

MapperAnthropicRequests ==
    {[model |-> "claude-3-opus", max_tokens |-> 16, messages |-> ms, stream |-> FALSE] :
        ms \in MapperAnthropicMessageLists}
        \cup {[model |-> "claude-3-opus", max_tokens |-> 16, system |-> <<"B", "e">>,
               messages |-> <<AnthropicSays("user", Str(Hi))>>, stream |-> FALSE]}

MapperRequests(f) == IF f = "A" THEN MapperOpenAIRequests ELSE MapperAnthropicRequests

\* the backend messages handed to fromPiAiResponse
Thinking == [type |-> "thinking", thinking |-> <<"h", "m">>]
BackendCall(id, arguments) ==
    [type |-> "toolCall", id |-> id, name |-> "get_weather", arguments |-> arguments]
MapperContents ==
    {<<>>,
     <<TextBlock(<<"H", "e">>), TextBlock(<<"y">>)>>,
     <<Thinking, BackendCall("call_2", Weather)>>,
     <<TextBlock(<<"H", "e">>), BackendCall("call_1", JSONParseText(ArgsLocation).value),
       Thinking, TextBlock(<<"y">>), BackendCall("call_2", JSONParseText(ArgsIndexKeys).value)>>}
BackendStopReasons == {"stop", "length", "toolUse", "error"}
MapperMessages ==
    {BackendMessage(content, reason) :
        content \in MapperContents, reason \in BackendStopReasons \cup {"aborted"}}

\* the backend events handed to streamFromPiAiEvent
MapperEvents ==
    {[type |-> "done", reason |-> r, message |-> FinalMessage(r)] : r \in BackendStopReasons}
        \cup {[type |-> "done", message |-> FinalMessage("stop")],
              [type |-> "text_delta", contentIndex |-> 0, delta |-> "Hi"],
              [type |-> "error", reason |-> "error", error |-> FinalMessage("error")]}
        \cup {[type |-> "text_delta", contentIndex |-> 0, delta |-> "", partial |-> PartialMessage],
              [type |-> "toolcall_end", contentIndex |-> 1, toolCall |-> ToolCallBlock,
               partial |-> PartialMessage],
              [type |-> "start", partial |-> PartialMessage],
              [type |-> "thinking_delta", contentIndex |-> 0, delta |-> "hm",
               partial |-> PartialMessage],
              [type |-> "toolcall_delta", contentIndex |-> 1, delta |-> "{",
               partial |-> PartialMessage]}
        \cup {[type |-> t, contentIndex |-> 0, partial |-> PartialMessage] :
                 t \in {"text_start", "text_end", "thinking_start", "thinking_end",
                        "toolcall_start"}}

\* toPiAiContext(request)
ToPiAiContext(k, f, request) ==
    /\ api[k].pc = "idle"
    /\ LET converted == IF f = "A" THEN OpenAIToPiAiContext(request)
                        ELSE AnthropicToPiAiContext(request)
           called == [api[k] EXCEPT !.pc = "context", !.format = f, !.body = Some(request)]
       IN  api' = [api EXCEPT ![k] =
                     IF converted.ok THEN [called EXCEPT !.context = Some(converted.context)]
                     ELSE [called EXCEPT !.failure = Some(converted.error)]]
    /\ UNCHANGED <<now, storeVars, gateVars, loginVars, lastCompleted, streamVars, opVars>>

\* fromPiAiResponse(piaiMessage, requestId, model, created)
FromPiAiResponse(k, f, piaiMessage) ==
    /\ api[k].pc = "idle"
    /\ api' = [api EXCEPT ![k] =
                 [@ EXCEPT !.pc = "response", !.format = f, !.piaiMessage = Some(piaiMessage),
                           !.response = Some(IF f = "A"
                                             THEN OpenAIFromPiAiResponse(piaiMessage, requestModel)
                                             ELSE AnthropicFromPiAiResponse(piaiMessage,
                                                                            requestModel))]]
    /\ UNCHANGED <<now, storeVars, gateVars, loginVars, lastCompleted, streamVars, opVars>>

\* streamFromPiAiEvent(event, requestId, model, created), run to its end
StreamFromPiAiEvent(k, f, event) ==
    /\ api[k].pc = "idle"
    /\ api' = [api EXCEPT ![k] =
                 [@ EXCEPT !.pc = "chunks", !.format = f, !.event = Some(event),
                           !.chunks = IF f = "A" THEN OpenAIStreamFromPiAiEvent(event)
                                      ELSE AnthropicStreamFromPiAiEvent(event)]]
    /\ UNCHANGED <<now, storeVars, gateVars, loginVars, lastCompleted, streamVars, opVars>>

MapperInit ==
    /\ now = 0
    /\ AUTH_MODE = "passthrough"
    /\ authFile = NoFile
    /\ writing = {}
    /\ unlinked = {}
    /\ reqs = [r \in Requests |-> IdleRequest]
    /\ decl = 1
    /\ cleaned = None
    /\ pendingLogins = <<>>
    /\ flows = <<>>
    /\ loginReturn = <<>>
    /\ lastCompleted = None
    /\ format = "A"
    /\ streamPc = "idle"
    /\ piEvents = <<>>
    /\ bridgeLog = <<>>
    /\ written = <<>>
    /\ client = "connected"
    /\ api = [k \in Calls |-> IdleCall]
    /\ ops = [o \in Ops |-> IdleOp]
    /\ committed = None

MapperNext ==
    \/ \E k \in Calls, f \in Formats : \E request \in MapperRequests(f) : ToPiAiContext(k, f, request)
    \/ \E k \in Calls, f \in Formats, m \in MapperMessages : FromPiAiResponse(k, f, m)
    \/ \E k \in Calls, f \in Formats, e \in MapperEvents : StreamFromPiAiEvent(k, f, e)

MapperSpec == MapperInit /\ [][MapperNext]_vars

(***************************************************************************)
(* Properties of the auth gate, checked under Spec.                        *)
(***************************************************************************)
NamesLogin(body) == \E i \in 1 .. Len(body) : body[i] = "/auth/login"

Settled(r) == reqs[r].pc \in {"next", "done"}

\* C1: in managed mode a request whose load() finds no record is answered 401
\* with a message that names /auth/login, next() is not run, no auth context is
\* set and no backend call is made with any key.
C1_NoCredentialsRejected ==
    \A r \in Requests :
        (AUTH_MODE = "managed" /\ Settled(r) /\ ~IsSome(reqs[r].credentials))
            => /\ reqs[r].pc = "done"
               /\ reqs[r].status = 401
               /\ NamesLogin(reqs[r].body)
               /\ reqs[r].nextRuns = 0
               /\ ~reqs[r].handled
               /\ reqs[r].auth = None
               /\ reqs[r].apiKey = None

\* a request that found no auth file has been answered
C1_Witness ==
    \E r \in Requests :
        /\ AUTH_MODE = "managed" /\ reqs[r].pc = "done"
        /\ reqs[r].loads = 1 /\ reqs[r].sawFile = "absent"
        /\ reqs[r].status = 401

RejectedExpired(r) ==
    /\ reqs[r].status = 401 /\ reqs[r].body = MsgTokenExpired
    /\ reqs[r].nextRuns = 0 /\ reqs[r].auth = None
Admitted(r) == reqs[r].nextRuns = 1 /\ IsSome(reqs[r].auth) /\ reqs[r].status # 401

\* C3: in managed mode with a loaded record the gate answers the `Token expired`
\* 401 exactly when now > expiresAt - 5 minutes and admits otherwise: it rejects
\* at 4 minutes to expiry, admits at 6, and decides as isExpired() does on the
\* same record at the same time.
C3_ExpiryBoundary ==
    \A r \in Requests :
        (AUTH_MODE = "managed" /\ Settled(r) /\ IsSome(reqs[r].credentials))
            => LET c == Val(reqs[r].credentials)
                   t == Val(reqs[r].checkedAt)
               IN  /\ RejectedExpired(r) <=> t > c.expiresAt - 300000
                   /\ Admitted(r) <=> ~RejectedExpired(r)
                   /\ RejectedExpired(r) <=> isExpired(reqs[r].credentials, t)
                   /\ c.expiresAt = t + 240000 => RejectedExpired(r)
                   /\ c.expiresAt = t + 360000 => Admitted(r)

\* one request rejected at 4 minutes to expiry, another admitted at 6
C3_Witness ==
    \E r1, r2 \in Requests :
        /\ AUTH_MODE = "managed" /\ Settled(r1) /\ Settled(r2)
        /\ IsSome(reqs[r1].credentials) /\ IsSome(reqs[r2].credentials)
        /\ Val(reqs[r1].credentials).expiresAt = Val(reqs[r1].checkedAt) + 240000
        /\ RejectedExpired(r1)
        /\ Val(reqs[r2].credentials).expiresAt = Val(reqs[r2].checkedAt) + 360000
        /\ Admitted(r2)

\* C4: in passthrough mode the gate admits exactly the requests whose
\* Authorization header starts with "Bearer ", with the rest of the header as the
\* access token and source bearer; it reads no stored record and checks no
\* expiry; every other request gets a 401 whose body is neither managed body,
\* and its handler is not run.
C4_PassthroughBearer ==
    \A r \in Requests :
        (AUTH_MODE = "passthrough" /\ Settled(r))
            => LET h == reqs[r].header
                   bearer == /\ Len(h) = 1
                             /\ Len(h[1]) >= 7
                             /\ SubSeq(h[1], 1, 7) = <<"B", "e", "a", "r", "e", "r", " ">>
               IN  /\ reqs[r].loads = 0
                   /\ reqs[r].credentials = None /\ reqs[r].checkedAt = None
                   /\ bearer =>
                        /\ reqs[r].nextRuns = 1
                        /\ reqs[r].auth =
                             Some([accessToken |-> SubSeq(h[1], 8, Len(h[1])),
                                   source |-> "bearer"])
                   /\ ~bearer =>
                        /\ reqs[r].pc = "done" /\ reqs[r].status = 401
                        /\ reqs[r].body \notin {MsgNoCredentials, MsgTokenExpired}
                        /\ reqs[r].nextRuns = 0 /\ ~reqs[r].handled
                        /\ reqs[r].auth = None /\ reqs[r].apiKey = None

\* a bearer request served and a request with another scheme rejected
C4_Witness ==
    \E r1, r2 \in Requests :
        /\ AUTH_MODE = "passthrough"
        /\ reqs[r1].pc = "done" /\ reqs[r1].header = Some(BearerT1)
        /\ reqs[r1].apiKey = Some(<<"t", "1">>)
        /\ reqs[r2].pc = "done" /\ reqs[r2].header = Some(BasicT1)
        /\ reqs[r2].status = 401

(***************************************************************************)
(* Properties of the login sessions, checked under LoginSpec.              *)
(***************************************************************************)
SameCredentials(a, b) ==
    /\ \A k \in {"accessToken", "refreshToken", "expiresAt", "createdAt"} : a[k] = b[k]
    /\ Prop(a, "enterpriseUrl") = Prop(b, "enterpriseUrl")

\* C2: once a session has become `complete`, and until a clear() or another
\* save() runs, load() returns the credentials the device login resolved with
\* and GET /auth/status reports authenticated.
C2_CompleteMeansSaved ==
    IsSome(lastCompleted)
        => /\ IsSome(load(authFile))
           /\ SameCredentials(Val(load(authFile)), Val(lastCompleted))
           /\ AuthStatus.authenticated

\* C5: a session has status `started` until the device login's first callback,
\* and from that callback on it is `pending` with the verification URL recorded.
C5_StartedUntilCallback ==
    \A id \in DOMAIN pendingLogins :
        LET read == Val(getLoginStatus(id))
        IN  /\ flows[id].phase = "started" => read.status = "started"
            /\ flows[id].phase = "authed"
                => read.status = "pending" /\ read.verificationUri = Some(VerificationUrl)

\* C6: a session that is `complete` or `error` keeps that status for as long
\* as it is in the map, no session goes from `pending` back to `started`, and
\* the status a callback writes is the one getLoginStatus returns next.
C6_StatusNeverGoesBack ==
    [][\A id \in DOMAIN pendingLogins \cap DOMAIN pendingLogins' :
            LET before == pendingLogins[id].status
                after == Val(getLoginStatus(id)').status
            IN  /\ before \in {"complete", "error"} => after = before
                /\ before = "pending" => after # "started"
                /\ flows[id].phase # flows'[id].phase
                    => after = CASE flows'[id].phase = "authed" -> "pending"
                                 [] flows'[id].phase = "resolved" -> "complete"
                                 [] flows'[id].phase = "rejected" -> "error"]_vars

\* a session is `complete`, another is `error`, and cleanup has removed a third
\* or time has passed since
C6_Witness ==
    \E id1, id2 \in DOMAIN pendingLogins :
        /\ pendingLogins[id1].status = "complete"
        /\ pendingLogins[id2].status = "error"
        /\ now > 0

IsChunkFrame(fr) == fr.frame = "data"
IsTextDelta(ev) == ev.type = "text_delta"
IsEventFrame(fr) == fr.frame = "event"

\* the chunks the Format-A route has written, in order
WrittenChunks ==
    LET frames == SelectSeq(written, IsChunkFrame)
    IN  [i \in 1 .. Len(frames) |-> frames[i].chunk.choices[1]]

\* the names of the events the Format-B route has written, in order
WrittenNames ==
    LET frames == SelectSeq(written, IsEventFrame)
    IN  [i \in 1 .. Len(frames) |-> frames[i].name]

BackendEnded == piEvents # <<>> /\ Terminal(Last(piEvents))

\* C8: once a Format-A stream whose backend ended in `done` or `error` is
\* closed, exactly one written chunk has a non-null finish_reason, and that
\* chunk is the last chunk written.
C8_TerminalChunkUnique ==
    (format = "A" /\ streamPc = "closed" /\ BackendEnded) =>
        LET finished == {i \in 1 .. Len(WrittenChunks) :
                            WrittenChunks[i].finish_reason # None}
        IN  finished = {Len(WrittenChunks)} /\ Len(WrittenChunks) > 0

\* C9: once a Format-B stream whose backend ended in `done` is closed, the
\* written events end with message_delta immediately followed by
\* message_stop, and neither name occurs anywhere before those two.
C9_DeltaThenStop ==
    (format = "B" /\ streamPc = "closed" /\ BackendEnded /\ Last(piEvents).type = "done") =>
        LET n == Len(WrittenNames)
        IN  /\ n >= 2
            /\ WrittenNames[n - 1] = "message_delta"
            /\ WrittenNames[n] = "message_stop"
            /\ \A i \in 1 .. n - 2 : WrittenNames[i] \notin {"message_delta", "message_stop"}

\* C10: once a Format-A stream is closed, the (index, delta.content) pairs
\* of the written chunks that carry content are, in order, the
\* (contentIndex, delta) pairs of the backend's text_delta events.
C10_ContentFollowsDeltas ==
    (format = "A" /\ streamPc = "closed") =>
        LET deltas == SelectSeq(piEvents, IsTextDelta)
            HasContent(ch) == IsSome(ch.delta.content)
            contents == SelectSeq(WrittenChunks, HasContent)
        IN  [i \in 1 .. Len(contents) |-> <<contents[i].index, Val(contents[i].delta.content)>>]
                = [i \in 1 .. Len(deltas) |-> <<deltas[i].contentIndex, deltas[i].delta>>]

\* C11: once a Format-A streaming response is over, its last write is the
\* frame `data: [DONE]`, and when the backend ended in `done` or `error` the
\* write before it is a chunk with a non-null finish_reason.
C11_DoneSentinelLast ==
    (format = "A" /\ streamPc \in {"closed", "failed"}) =>
        /\ written # <<>>
        /\ Last(written) = DoneFrame
        /\ BackendEnded =>
              /\ Len(written) >= 2
              /\ IsChunkFrame(written[Len(written) - 1])
              /\ written[Len(written) - 1].chunk.choices[1].finish_reason # None

IsPayloadFrame(fr) == fr.frame = "data"

\* C12: once the backend's `start` event has been handled by the Format-B
\* route, the written events hold message_start exactly once, as the first
\* event, and its payload has an empty content array and zero usage.
C12_OneMessageStartFirst ==
    (format = "B" /\ piEvents # <<>>) =>
        LET payloads == SelectSeq(written, IsPayloadFrame)
        IN  /\ WrittenNames # <<>>
            /\ WrittenNames[1] = "message_start"
            /\ \A i \in 2 .. Len(WrittenNames) : WrittenNames[i] # "message_start"
            /\ payloads[1].data.content = <<>>
            /\ payloads[1].data.usage = [input_tokens |-> 0, output_tokens |-> 0]

(***************************************************************************)
(* Properties of the two POST routes, checked under ApiSpec.               *)
(***************************************************************************)
\* the body passes the schema and holds an assistant tool call whose
\* arguments string is not valid JSON
HasBadArguments(body) ==
    /\ SchemaAccepts("A", body)
    /\ \E i \in 1 .. Len(body.messages) : OpenAIMessageThrows(body.messages[i])

\* C13: a Format-A request with an assistant tool call whose arguments are
\* not valid JSON is answered with a 4xx status and a body holding an error
\* message, and no backend call is made for it.
C13_BadArgumentsClientError ==
    \A k \in Calls :
        (api[k].pc # "idle" /\ api[k].format = "A" /\ HasBadArguments(Val(api[k].body))) =>
            /\ api[k].pc = "responded"
            /\ api[k].status \in 400 .. 499
            /\ "error" \in DOMAIN Val(api[k].response)
            /\ api[k].backendCalls = 0

\* the call was answered after its backend call failed
BackendFailed(k) == api[k].pc = "responded" /\ IsSome(api[k].failure)

\* C14: two requests with the same route and the same body whose backend
\* calls both failed get the same status and the same response body,
\* whatever the texts of the two backend errors.
C14_ErrorBodyIndependentOfText ==
    \A j, k \in Calls :
        (/\ BackendFailed(j) /\ BackendFailed(k)
         /\ api[j].format = api[k].format
         /\ api[j].body = api[k].body
         /\ Val(api[j].failure).isError = Val(api[k].failure).isError) =>
            /\ api[j].status = api[k].status
            /\ api[j].response = api[k].response

\* C20: for a model name that is not a key of the route's alias table, the
\* resolved model id is that same name, as a string.
C20_UnknownModelUnchanged ==
    \A k \in Calls :
        IsSome(api[k].modelId) =>
            LET x == Val(api[k].body).model
                table == IF api[k].format = "A" THEN OPENAI_MODEL_ALIASES
                         ELSE ANTHROPIC_MODEL_ALIASES
            IN  x \notin DOMAIN table => Val(api[k].modelId) = StringValue(x)

(***************************************************************************)
(* Properties of the credential store, checked under StoreSpec.            *)
(***************************************************************************)
ReturnedOps(kind) == {o \in Ops : ops[o].kind = kind /\ ops[o].pc = "returned"}

\* C15: every clear() that has returned has succeeded, whatever other calls
\* it overlapped with, and the logout that made it has answered 200.
C15_ClearAlwaysSucceeds ==
    \A o \in ReturnedOps("clear") :
        /\ ops[o].outcome = "ok"
        /\ LogoutStatus(ops[o]) = 200

\* C16: a load() that reads the file while a completed save's record has not
\* been cleared returns a record, also when another save() is replacing it.
C16_LoadNeverAbsentDuringReplace ==
    \A o \in ReturnedOps("load") :
        IsSome(ops[o].stored) => IsSome(ops[o].value)

\* C17: with no save() in progress, load() returns the record of the last
\* completed save, equal to it in every field and with no field of an earlier
\* record, and exists() is true; with no record, load() is absent and exists()
\* is false.
C17_LoadReturnsLastSaved ==
    /\ \A o \in ReturnedOps("load") :
          ops[o].quiet =>
              IF IsSome(ops[o].stored)
              THEN /\ IsSome(ops[o].value)
                   /\ SameCredentials(Val(ops[o].value), Val(ops[o].stored))
              ELSE ops[o].value = None
    /\ \A o \in ReturnedOps("exists") :
          ops[o].quiet => (ops[o].found <=> IsSome(ops[o].stored))

\* a load() of the enterprise record and, after a save() has replaced it, a
\* load() of the github.com record, which has no enterpriseUrl
C17_Witness ==
    \E o1, o2 \in ReturnedOps("load") :
        /\ ops[o1].quiet /\ ops[o2].quiet
        /\ IsSome(ops[o1].value) /\ IsSome(ops[o2].value)
        /\ Val(ops[o1].value).accessToken = TokB
        /\ Prop(Val(ops[o1].value), "enterpriseUrl") = Some("ghe.example")
        /\ Val(ops[o2].value).accessToken = TokA
        /\ "enterpriseUrl" \notin DOMAIN Val(ops[o2].value)
        /\ committed = ops[o2].stored

(***************************************************************************)
(* Properties of concurrent login attempts and of cleanup, checked under   *)
(* LoginSpec.                                                              *)
(***************************************************************************)
\* the attempts whose device login makes a callback, resolves or rejects in
\* this step
Acting == {id \in DOMAIN flows : flows'[id].phase # flows[id].phase}

\* C18: a callback, the success or the failure of one login attempt leaves
\* every other session in the map, with its status, verification URL, user
\* code and message unchanged.
C18_AttemptsDoNotInterfere ==
    [][\A id \in Acting :
            \A other \in DOMAIN pendingLogins \ {id} :
                /\ other \in DOMAIN pendingLogins'
                /\ pendingLogins'[other] = pendingLogins[other]]_vars

\* two attempts in flight together have ended differently: one complete, the
\* other in error with its rejection's message
C18_Witness ==
    \E id1, id2 \in DOMAIN pendingLogins :
        /\ id1 # id2
        /\ flows[id1].phase = "resolved" /\ pendingLogins[id1].status = "complete"
        /\ pendingLogins[id1].verificationUri = Some(VerificationUrl)
        /\ flows[id2].phase = "rejected" /\ pendingLogins[id2].status = "error"
        /\ pendingLogins[id2].message = "Login cancelled"

\* the sessions a cleanup(maxAgeMs) at time t has to remove: those created
\* earlier than t - maxAgeMs
CreatedBefore(t, maxAgeMs) ==
    {id \in DOMAIN pendingLogins : flows[id].createdAt < t - maxAgeMs}

\* C19: a cleanup(maxAgeMs) removes exactly the sessions created earlier than
\* now - maxAgeMs, whatever their status, and leaves every other session in
\* the map with its record unchanged.
C19_CleanupRemovesExactlyOld ==
    [][(cleaned' # cleaned \/ DOMAIN pendingLogins' # DOMAIN pendingLogins) /\ flows' = flows
            => /\ IsSome(cleaned') /\ Val(cleaned').at = now
               /\ LET old == CreatedBefore(now, Val(cleaned').loginsOlderThanMs)
                  IN  /\ DOMAIN pendingLogins' = DOMAIN pendingLogins \ old
                      /\ \A id \in DOMAIN pendingLogins' :
                            pendingLogins'[id] = pendingLogins[id]]_vars

\* a cleanup has removed a session that had ended and kept a younger one
\* that is still pending
C19_Witness ==
    /\ IsSome(cleaned)
    /\ \E gone \in DOMAIN flows \ DOMAIN pendingLogins :
          /\ flows[gone].phase \in {"resolved", "rejected"}
          /\ flows[gone].createdAt < Val(cleaned).at - Val(cleaned).loginsOlderThanMs
    /\ \E kept \in DOMAIN pendingLogins :
          /\ pendingLogins[kept].status = "pending"
          /\ flows[kept].createdAt = Val(cleaned).at - Val(cleaned).loginsOlderThanMs

(***************************************************************************)
(* Properties of the two mappers, checked under MapperSpec.                *)
(***************************************************************************)
\* the calls of toPiAiContext of mapper f that have returned a context
Normalized(f) ==
    {k \in Calls : api[k].pc = "context" /\ api[k].format = f /\ IsSome(api[k].context)}
RequestMessages(k) == Val(api[k].body).messages
ContextMessages(k) == Val(api[k].context).messages

\* C21: after normalization by either mapper, every message of the context
\* has a content sequence that is not empty.
C21_ContentNeverEmpty ==
    \A f \in Formats : \A k \in Normalized(f) :
        \A i \in 1 .. Len(ContextMessages(k)) : ContextMessages(k)[i].content # <<>>

\* C22: in Format-B normalization, a tool_result block becomes, at its place
\* in the message, a tool result with the block's tool_use_id and content and
\* with the error flag is_error; it does not become a block of another kind.
C22_ToolResultCarried ==
    \A k \in Normalized("B") :
        \A i \in 1 .. Len(RequestMessages(k)) :
            LET content == RequestMessages(k)[i].content
            IN  ~IsStr(content) =>
                    \A j \in 1 .. Len(content.arr) :
                        content.arr[j].type = "tool_result" =>
                            LET out == ContextMessages(k)[i].content[j]
                            IN  /\ out.type = "toolResult"
                                /\ Field(out, "toolCallId") = Some(content.arr[j].tool_use_id)
                                /\ Field(out, "content") = Some(content.arr[j].content)
                                /\ "is_error" \in DOMAIN content.arr[j]
                                    => Field(out, "isError") = Some(content.arr[j].is_error)

\* the calls of fromPiAiResponse of mapper f, and those of streamFromPiAiEvent
Responded(f) == {k \in Calls : api[k].pc = "response" /\ api[k].format = f}
Chunked(f) == {k \in Calls : api[k].pc = "chunks" /\ api[k].format = f}

FinishReasonTable ==
    [stop |-> "stop", length |-> "length", toolUse |-> "tool_calls", error |-> "stop"]

\* the backend's done event with one of the four stop reasons
IsDoneWithReason(event) ==
    /\ event.type = "done"
    /\ "reason" \in DOMAIN event
    /\ event.reason \in BackendStopReasons

\* C23: for each of the backend's stop reasons stop, length, tool-use and
\* error, the finish_reason of the Format-A response and that of the terminal
\* chunk of the Format-A stream are the value of the table stop->stop,
\* length->length, tool-use->tool_calls, error->stop, hence the same.
C23_FinishReasonSameInBoth ==
    /\ \A k \in Responded("A") :
          Val(api[k].piaiMessage).stopReason \in BackendStopReasons =>
              Val(api[k].response).choices[1].finish_reason
                  = FinishReasonTable[Val(api[k].piaiMessage).stopReason]
    /\ \A k \in Chunked("A") :
          IsDoneWithReason(Val(api[k].event)) =>
              /\ Len(api[k].chunks) = 1
              /\ api[k].chunks[1].choices[1].finish_reason
                    = Some(FinishReasonTable[Val(api[k].event).reason])
              /\ api[k].chunks[1].choices[1].delta = Delta(None, None, None)
    /\ \A k1 \in Responded("A"), k2 \in Chunked("A") :
          /\ IsDoneWithReason(Val(api[k2].event))
          /\ Val(api[k1].piaiMessage).stopReason = Val(api[k2].event).reason
          => Some(Val(api[k1].response).choices[1].finish_reason)
                = api[k2].chunks[1].choices[1].finish_reason

\* a response and a terminal chunk for the stop reason toolUse
C23_Witness ==
    \E k1 \in Responded("A"), k2 \in Chunked("A") :
        /\ Val(api[k1].piaiMessage).stopReason = "toolUse"
        /\ Val(api[k2].event).type = "done"
        /\ Field(Val(api[k2].event), "reason") = Some("toolUse")
        /\ Val(api[k1].response).choices[1].finish_reason = "tool_calls"
        /\ api[k2].chunks[1].choices[1].finish_reason = Some("tool_calls")

StopReasonTable ==
    [stop |-> "end_turn", length |-> "max_tokens", toolUse |-> "tool_use", error |-> "end_turn"]

IsOutputBlock(block) == block.type \in {"text", "toolCall"}

\* C24: the Format-B response has the stop reason of the table
\* stop->end_turn, length->max_tokens, tool-use->tool_use, error->end_turn,
\* and its content list has one block for each text or tool-call block of
\* the backend message, in the same order and with that block's fields.
C24_BlocksOneToOne ==
    \A k \in Responded("B") :
        LET message == Val(api[k].piaiMessage)
            response == Val(api[k].response)
            blocks == SelectSeq(message.content, IsOutputBlock)
        IN  /\ message.stopReason \in BackendStopReasons
                => response.stop_reason = StopReasonTable[message.stopReason]
            /\ Len(response.content) = Len(blocks)
            /\ \A i \in 1 .. Len(blocks) :
                  IF blocks[i].type = "text"
                  THEN response.content[i] = [type |-> "text", text |-> blocks[i].text]
                  ELSE response.content[i] =
                          [type |-> "tool_use", id |-> blocks[i].id, name |-> blocks[i].name,
                           input |-> blocks[i].arguments]

\* a response to a message of two texts and two tool calls around a thinking
\* block, stopped for length
C24_Witness ==
    \E k \in Responded("B") :
        /\ Len(Val(api[k].piaiMessage).content) = 5
        /\ Val(api[k].piaiMessage).stopReason = "length"
        /\ Val(api[k].response).stop_reason = "max_tokens"
        /\ Len(Val(api[k].response).content) = 4
        /\ Val(api[k].response).content[2].type = "tool_use"
        /\ Val(api[k].response).content[3].text = <<"y">>

\* the number of characters of the first n of the text blocks
RECURSIVE LengthOfFirst(_, _)
LengthOfFirst(texts, n) ==
    IF n = 0 THEN 0 ELSE LengthOfFirst(texts, n - 1) + Len(texts[n].text)

\* C25: the Format-A response's message.content is the texts of the backend
\* message's text blocks joined in content order, and null when it has no
\* text block; thinking blocks add nothing; tool_calls has one entry for each
\* tool-call block, in order.
C25_TextJoinedCallsListed ==
    \A k \in Responded("A") :
        LET message == Val(api[k].piaiMessage)
            out == Val(api[k].response).choices[1].message
            texts == SelectSeq(message.content, IsTextBlock)
            calls == SelectSeq(message.content, IsToolCallBlock)
            entries == IF IsSome(out.tool_calls) THEN Val(out.tool_calls) ELSE <<>>
        IN  /\ texts = <<>> => out.content = None
            /\ texts # <<>> =>
                  /\ IsSome(out.content)
                  /\ Len(Val(out.content)) = LengthOfFirst(texts, Len(texts))
                  /\ \A i \in 1 .. Len(texts) :
                        SubSeq(Val(out.content), LengthOfFirst(texts, i - 1) + 1,
                               LengthOfFirst(texts, i)) = texts[i].text
            /\ Len(entries) = Len(calls)
            /\ \A i \in 1 .. Len(calls) :
                  /\ entries[i].id = calls[i].id
                  /\ entries[i].type = "function"
                  /\ entries[i].function.name = calls[i].name

\* a response with joined text and two tool calls, and one with tool calls
\* and null content
C25_Witness ==
    \E k1, k2 \in Responded("A") :
        /\ Val(api[k1].response).choices[1].message.content = Some(<<"H", "e", "y">>)
        /\ IsSome(Val(api[k1].response).choices[1].message.tool_calls)
        /\ Len(Val(Val(api[k1].response).choices[1].message.tool_calls)) = 2
        /\ Val(api[k2].response).choices[1].message.content = None
        /\ IsSome(Val(api[k2].response).choices[1].message.tool_calls)

\* the tool calls of a Format-A request in message order, and the tool-call
\* blocks of the context made from it
RequestToolCalls(k) ==
    LET CallsOf(m) == IF m.role = "assistant" THEN ToolCallsOf(m) ELSE <<>>
    IN  FlatMap(CallsOf, RequestMessages(k))
ContextToolCalls(k) ==
    LET BlocksOf(m) == IF m.role = "assistant" THEN SelectSeq(m.content, IsToolCallBlock)
                       ELSE <<>>
    IN  FlatMap(BlocksOf, ContextMessages(k))

\* the keys of the object the text s denotes, in the order the text first
\* gives them (s is the text of an object)
RECURSIVE InsertedKeys(_, _, _)
InsertedKeys(s, i, keys) ==
    LET key == ParseString(s, SkipWhile(s, i, WhiteSpace))
    IN  IF ~key.ok THEN keys
        ELSE LET colon == SkipWhile(s, key.next, WhiteSpace)
                 value == ParseValue(s, colon + 1)
                 after == SkipWhile(s, value.next, WhiteSpace)
                 IsKey(other) == other = key.value.v
                 all == IF SelectSeq(keys, IsKey) # <<>> THEN keys
                        ELSE Append(keys, key.value.v)
             IN  IF s[after] = "," THEN InsertedKeys(s, after + 1, all) ELSE all
KeysAsInserted(s) == InsertedKeys(s, SkipWhile(s, 1, WhiteSpace) + 1, <<>>)
KeysOfObject(value) == [i \in 1 .. Len(value.v) |-> value.v[i].key]

\* the order in which JavaScript lists those keys: array indices first, by
\* ascending value, then the other keys as inserted
KeysAsEnumerated(s) ==
    LET inserted == KeysAsInserted(s)
        indices == {inserted[i] : i \in {j \in 1 .. Len(inserted) : IsIndexKey(inserted[j])}}
        Smaller(key) == {other \in indices : parseInt(other) < parseInt(key)}
        IsName(key) == ~IsIndexKey(key)
    IN  [i \in 1 .. Cardinality(indices) |->
            CHOOSE key \in indices : Cardinality(Smaller(key)) = i - 1]
        \o SelectSeq(inserted, IsName)

\* the parts of the round trip that do not depend on the order of keys, and
\* the order `KeyOrder` gives for the keys of the re-serialized string
RoundTrip(KeyOrder(_)) ==
    /\ \A k \in Normalized("A") :
          /\ Len(ContextToolCalls(k)) = Len(RequestToolCalls(k))
          /\ \A i \in 1 .. Len(RequestToolCalls(k)) :
                LET tc == RequestToolCalls(k)[i]
                    block == ContextToolCalls(k)[i]
                    again == JSONParseText(StringifyArguments(block.arguments))
                IN  /\ block.id = tc.id
                    /\ block.name = tc.function.name
                    /\ block.arguments = JSONParseText(tc.function.arguments).value
                    /\ again.ok /\ again.value = block.arguments
                    /\ block.arguments.t = "object"
                        => KeysOfObject(again.value) = KeyOrder(tc.function.arguments)
                    /\ tc.function.arguments = ArgsLocation
                        => StringifyArguments(block.arguments) = ArgsLocation
    /\ \A k \in Responded("A") :
          LET calls == SelectSeq(Val(api[k].piaiMessage).content, IsToolCallBlock)
              out == Val(api[k].response).choices[1].message
          IN  \A i \in 1 .. Len(calls) :
                LET again == JSONParseText(Val(out.tool_calls)[i].function.arguments)
                IN  again.ok /\ again.value = calls[i].arguments

\* C26: a Format-A tool call with valid JSON arguments s becomes a tool-call
\* block with the same id and name and arguments parse(s); fromResponse
\* gives for such a block a string that parses back to the same object, with
\* array-index keys first in ascending order and the other keys in insertion
\* order; {"location":"London"} comes back as the same string.
C26_ArgumentsRoundTrip == RoundTrip(KeysAsEnumerated)

\* the same with all keys in insertion order
C26_KeysInInsertionOrder == RoundTrip(KeysAsInserted)

\* {"location":"London"} has been normalized, and a block with those
\* arguments and one with array-index keys have been re-serialized
C26_Witness ==
    \E k1 \in Normalized("A"), k2 \in Responded("A") :
        /\ Len(RequestToolCalls(k1)) = 1
        /\ RequestToolCalls(k1)[1].function.arguments = ArgsLocation
        /\ ContextToolCalls(k1)[1].arguments
              = JsonObject(<<[key |-> <<"l", "o", "c", "a", "t", "i", "o", "n">>,
                              value |-> JsonString(<<"L", "o", "n", "d", "o", "n">>)]>>)
        /\ IsSome(Val(api[k2].response).choices[1].message.tool_calls)
        /\ Len(Val(Val(api[k2].response).choices[1].message.tool_calls)) = 2
        /\ Val(Val(api[k2].response).choices[1].message.tool_calls)[1].function.arguments
              = ArgsLocation

IsNotSystem(msg) == msg.role # "system"
InternalRole == [user |-> "user", assistant |-> "assistant", tool |-> "toolResult"]

\* what tells the internal message made from msg apart from its neighbours:
\* the text of a string content, the id a tool message answers, the number
\* of tool calls of an assistant message
Corresponds(f, msg, internal) ==
    /\ internal.role = InternalRole[msg.role]
    /\ (msg.role = "user" /\ "content" \in DOMAIN msg /\ IsStr(msg.content))
          => internal.content = IF f = "A" THEN <<msg.content>>
                                ELSE <<TextBlock(msg.content.str)>>
    /\ msg.role = "tool" => internal.toolCallId = msg.tool_call_id
    /\ (f = "A" /\ msg.role = "assistant")
          => Len(SelectSeq(internal.content, IsToolCallBlock)) = Len(ToolCallsOf(msg))
    /\ (f = "B" /\ ~IsStr(msg.content)) => Len(internal.content) = Len(msg.content.arr)

\* C27: for both mappers, the i-th message of the request that is not a
\* system message becomes the i-th message of the context, with the role
\* user, assistant or tool-result of its own role; none is dropped, doubled
\* or moved.
C27_OrderPreserved ==
    \A f \in Formats : \A k \in Normalized(f) :
        LET given == SelectSeq(RequestMessages(k), IsNotSystem)
        IN  /\ Len(ContextMessages(k)) = Len(given)
            /\ \A i \in 1 .. Len(given) : Corresponds(f, given[i], ContextMessages(k)[i])

\* a Format-A conversation of user, assistant, tool and user messages and a
\* Format-B conversation of three messages have been normalized
C27_Witness ==
    \E k1 \in Normalized("A"), k2 \in Normalized("B") :
        /\ [i \in 1 .. Len(ContextMessages(k1)) |-> ContextMessages(k1)[i].role]
              = <<"user", "assistant", "toolResult", "user">>
        /\ [i \in 1 .. Len(ContextMessages(k2)) |-> ContextMessages(k2)[i].role]
              = <<"user", "assistant", "user">>
        /\ ContextMessages(k2)[2].content = <<TextBlock(Yo)>>

\* the text of a content: the string, or the texts of its text blocks
TextOf(content) ==
    IF IsStr(content) THEN content.str
    ELSE Join([i \in 1 .. Len(SelectSeq(content.arr, IsTextBlock)) |->
                  SelectSeq(content.arr, IsTextBlock)[i].text])

\* C28: when a Format-A request has system messages, the context's system
\* instruction is the content of the first of them, later ones are neither
\* used nor merged, and the context's messages hold no system message.
C28_FirstSystemWins ==
    \A k \in Normalized("A") :
        LET IsSystem(msg) == msg.role = "system"
            systems == SelectSeq(RequestMessages(k), IsSystem)
            systemPrompt == Val(api[k].context).systemPrompt
        IN  /\ \A i \in 1 .. Len(ContextMessages(k)) : ContextMessages(k)[i].role # "system"
            /\ systems # <<>> =>
                  /\ IsSome(systemPrompt)
                  /\ Val(systemPrompt) = TextOf(systems[1].content)

\* the texts of the text blocks of an internal assistant message, in order
TextsOf(internal) ==
    [i \in 1 .. Len(SelectSeq(internal.content, IsTextBlock)) |->
        SelectSeq(internal.content, IsTextBlock)[i].text]

\* C29: a Format-A assistant message's text, given as a string or as an
\* array of text blocks, is in the text blocks of its internal message, all
\* of it and in order; the tool-call blocks follow, one per tool_calls entry,
\* with the call's id, name and parsed arguments.
C29_AssistantTextKept ==
    \A k \in Normalized("A") :
        LET given == SelectSeq(RequestMessages(k), IsNotSystem)
        IN  \A i \in 1 .. Len(given) :
                (given[i].role = "assistant" /\ i <= Len(ContextMessages(k))) =>
                    LET internal == ContextMessages(k)[i]
                        texts == TextsOf(internal)
                        calls == ToolCallsOf(given[i])
                    IN  /\ "content" \in DOMAIN given[i]
                            => Join(texts) = TextOf(given[i].content)
                        /\ Len(internal.content) = Len(texts) + Len(calls)
                        /\ \A j \in 1 .. Len(calls) :
                              LET block == internal.content[Len(texts) + j]
                              IN  /\ block.type = "toolCall"
                                  /\ block.id = calls[j].id
                                  /\ block.name = calls[j].function.name
                                  /\ block.arguments
                                        = JSONParseText(calls[j].function.arguments).value

(***************************************************************************)
(* Properties of a streaming response whose client leaves, checked under   *)
(* DisconnectSpec.                                                         *)
(***************************************************************************)
\* the iteration over the backend's stream has stopped before the stream's
\* terminal event
TornDown == streamPc \in {"closed", "failed"} /\ ~BackendEnded

\* C30: when the client disconnects while a streaming response of either
\* format is in progress, the iteration over the backend's stream is
\* eventually stopped without having been consumed to its terminal event.
C30_DisconnectTearsDown ==
    (client = "gone" /\ streamPc = "streaming" /\ ~BackendEnded) ~> TornDown

(***************************************************************************)
(* Further properties of the POST handlers, checked under ApiSpec.         *)
(***************************************************************************)
\* the call carries a Format-B body without max_tokens
LacksMaxTokens(k) ==
    /\ api[k].pc # "idle"
    /\ api[k].format = "B"
    /\ "max_tokens" \notin DOMAIN Val(api[k].body)

\* C31: a Format-B request without max_tokens is answered with a 4xx status
\* before the mapper has run: no model id is resolved, no context is built
\* and no backend call, streaming or not, is made for it.
C31_MissingMaxTokensRejected ==
    \A k \in Calls :
        LacksMaxTokens(k) =>
            /\ api[k].pc = "responded"
            /\ api[k].status \in 400 .. 499
            /\ api[k].modelId = None
            /\ api[k].context = None
            /\ api[k].backendCalls = 0
            /\ api[k].piaiMessage = None

C31_Witness == \E k \in Calls : LacksMaxTokens(k) /\ api[k].pc = "responded"

(***************************************************************************)
(* Further properties of the mappers, checked under MapperSpec.            *)
(***************************************************************************)
ForwardedTypes == {"text_delta", "toolcall_end", "done"}
AbsorbedTypes ==
    {"start", "text_start", "text_end", "thinking_start", "thinking_delta", "thinking_end",
     "toolcall_start", "toolcall_delta"}

\* C32: the Format-A stream mapper yields at most one chunk per backend
\* event: exactly one for every text_delta (the empty delta included),
\* every toolcall_end and every done event, and none for start, text_start,
\* text_end, the thinking events, toolcall_start and toolcall_delta.
C32_OneChunkPerForwardedEvent ==
    \A k \in Chunked("A") :
        LET type == Val(api[k].event).type
        IN  /\ Len(api[k].chunks) <= 1
            /\ type \in ForwardedTypes => Len(api[k].chunks) = 1
            /\ type \in AbsorbedTypes => Len(api[k].chunks) = 0

(***************************************************************************)
(* Further properties of the login sessions, checked under LoginSpec.      *)
(***************************************************************************)
\* the device login has given this session instructions without a code
NoCodeGiven(id) == flows[id].match = Some(None)

\* C33: when the verification instructions hold no match for `code: TOKEN`,
\* the session's user code stays unset (not the empty string), the session
\* is pending with the verification URL recorded, and the flow goes on to
\* complete or error when the device login settles.
C33_NoMatchLeavesCodeUnset ==
    \A id \in DOMAIN pendingLogins :
        NoCodeGiven(id) =>
            /\ pendingLogins[id].userCode = None
            /\ pendingLogins[id].verificationUri = Some(VerificationUrl)
            /\ flows[id].phase = "authed" => pendingLogins[id].status = "pending"
            /\ flows[id].phase = "resolved" => pendingLogins[id].status = "complete"
            /\ flows[id].phase = "rejected" => pendingLogins[id].status = "error"

(***************************************************************************)
(* Further properties of the auth gate, checked under Spec.                *)
(***************************************************************************)
\* next() was called once, after c.set("auth", ...) with a token and a source
RanWithContext(r) ==
    /\ reqs[r].nextRuns = 1
    /\ IsSome(reqs[r].auth)
    /\ {"accessToken", "source"} \subseteq DOMAIN Val(reqs[r].auth)
    /\ reqs[r].status # 401

\* the gate answered 401, set no auth context and did not call next()
Answered401(r) ==
    /\ reqs[r].pc = "done" /\ reqs[r].status = 401
    /\ reqs[r].auth = None
    /\ reqs[r].nextRuns = 0 /\ ~reqs[r].handled

\* C34: every run of the gate ends in exactly one of two ways: the handler
\* is run once with an auth context (access token and source) set before
\* it, or a 401 is answered with no auth context set and the handler not
\* run; the handler never runs without an auth context.
C34_AdmitOrReject ==
    \A r \in Requests :
        /\ Settled(r) => (RanWithContext(r) # Answered401(r))
        /\ reqs[r].nextRuns <= 1
        /\ reqs[r].nextRuns = 1 => IsSome(reqs[r].auth)
        /\ reqs[r].handled => (IsSome(reqs[r].auth) /\ reqs[r].nextRuns = 1)

\* one request served by its handler and another answered 401
C34_Witness ==
    \E r1, r2 \in Requests :
        /\ reqs[r1].pc = "done" /\ reqs[r1].handled /\ RanWithContext(r1)
        /\ reqs[r2].pc = "done" /\ Answered401(r2)

(***************************************************************************)
(* Properties of login()'s return, checked under LoginLiveSpec.            *)
(***************************************************************************)
\* the device login of this session has resolved or rejected
BackendSettled(id) == id \in DOMAIN flows /\ flows[id].phase \in {"resolved", "rejected"}

\* login() of this session has returned a LoginResponse to the route
LoginReturned(id) == id \in DOMAIN loginReturn /\ IsSome(loginReturn[id])

\* C35: every login() returns to its caller once its device login has
\* settled, whether the device login called onAuth and then resolved or
\* rejected without ever calling onAuth.
C35_LoginReturns == \A id \in SessionIds : BackendSettled(id) ~> LoginReturned(id)

(***************************************************************************)
(* Properties of removed login sessions, checked under LoginSpec.          *)
(***************************************************************************)
\* the sessions cleanup() has deleted: login() made them and the map has
\* them no more
Removed == DOMAIN flows \ DOMAIN pendingLogins

\* C36: a session cleanup() has removed is never created again: in every
\* step the removed ids stay out of the session map and getLoginStatus
\* finds nothing for them, and a callback, success or failure of a removed
\* session's device login leaves every other session's record as it was.
C36_RemovedStaysRemoved ==
    [][\A id \in Removed :
          /\ id \notin DOMAIN pendingLogins'
          /\ getLoginStatus(id)' = None
          /\ id \in Acting => pendingLogins' = pendingLogins]_vars

\* the device login of a session settled after cleanup() had removed it,
\* while another session is in the map
C36_Witness ==
    \E id \in Removed :
        /\ flows[id].orphan
        /\ flows[id].phase \in {"resolved", "rejected"}
        /\ DOMAIN pendingLogins # {}

(***************************************************************************)
(* The status query against the auth gate, checked under Spec.             *)
(***************************************************************************)
\* the gate decides on request r in this step
Deciding(r) == reqs[r].pc \in {"arrived", "reading"} /\ reqs'[r].pc \in {"next", "done"}

\* C37: in managed mode the status query and the gate agree: when the gate
\* decides on a request, GET /auth/status on the same stored record at the
\* same time reports authenticated = true only if the gate admits the
\* request, and the gate answers 401 only if the status query reports
\* authenticated = false.
C37_StatusAgreesWithGate ==
    [][\A r \in Requests :
          (AUTH_MODE = "managed" /\ Deciding(r)) =>
              /\ AuthStatus.authenticated => reqs'[r].pc = "next"
              /\ reqs'[r].status = 401 => ~AuthStatus.authenticated]_vars

\* C38: the gate only reads the credential store: no step of a request
\* through the gate, admitted or rejected for a missing record, an expired
\* record or a missing bearer token, saves, alters or deletes the stored
\* record: the file and the record load() finds in it are the same after
\* the step as before it.
C38_GateOnlyReads ==
    [][\A r \in Requests :
          reqs'[r] # reqs[r] =>
              /\ authFile' = authFile
              /\ loadRead(authFile') = loadRead(authFile)
              /\ writing' = writing /\ unlinked' = unlinked
              /\ committed' = committed]_vars

\* one request served and another rejected as expired, with the record they
\* both read still in the file
C38_Witness ==
    \E r1, r2 \in Requests :
        /\ reqs[r1].pc = "done" /\ reqs[r1].handled /\ reqs[r1].status = 200
        /\ reqs[r2].pc = "done" /\ reqs[r2].body = MsgTokenExpired
        /\ IsSome(reqs[r1].credentials)
        /\ loadRead(authFile) = reqs[r1].credentials
        /\ loadRead(authFile) = reqs[r2].credentials

(***************************************************************************)
(* The end of a Format-B stream, checked under StreamSpec.                 *)
(***************************************************************************)
\* the streaming callback is over: the response is closed
StreamOver == streamPc \in {"closed", "failed"}

\* C39: a Format-B streaming response that has started and is over has
\* message_stop as its last written event, also when the backend's stream
\* ended with `error` or with a done event without a message: the stream
\* never closes without message_stop.
C39_EndsWithMessageStop ==
    (format = "B" /\ StreamOver) =>
        /\ WrittenNames # <<>>
        /\ Last(WrittenNames) = "message_stop"
====
